---- MODULE Spec2Model ----
(***************************************************************************)
(* Burn-attestation bridge: the light client (validator-set governance and *)
(* attestation verification) and the two mint controllers (XENCAT, DGN).   *)
(* Every instruction runs as one atomic transaction: it either commits all *)
(* of its writes or none, so each handler is one action.  Accounts are     *)
(* addressed by their PDA seeds; an account that was never created reads   *)
(* as absent (exists = FALSE).  Rent, bumps and clock timestamps are not   *)
(* modelled.                                                               *)
(***************************************************************************)
EXTENDS Integers, Sequences, FiniteSets, TLC

\* ------------------------------------------------------------------ bounds
MaxVersion == 3
MaxBatchLen == 3
MaxApprovals == 2
\* Stand-in for u64::MAX (2^64 - 1), which TLC's integers cannot hold.
U64_MAX == 2000000000
UserInitialLamports == 200000000

\* ------------------------------------------------------- program constants
DOMAIN_SEPARATOR == "XENCAT_X1_BRIDGE_V1"
ASSET_XENCAT == 1
ASSET_DGN == 2
FEE_PER_VALIDATOR == 10000000
MAX_ROSTER_LEN == 10

\* The five keys written by initialize_validator_set, in roster order.
InitialValidators == <<"V1", "V2", "V3", "V4", "V5">>

\* ------------------------------------------------------------ input domains
Users == {"U1", "U2"}
Nonces == {7}
AssetIds == {1, 2, 3}
InitThresholds == {0, 2, 6}
ValidatorKeys == {"V1", "V2", "V3", "V4", "V5", "X"}
AllKeys == Users \cup ValidatorKeys

\* ------------------------------------------------------------------ helpers
Contains(s, x) == \E i \in 1..Len(s) : s[i] = x

SeqsUpTo(S, n) == UNION {[1..k -> S] : k \in 0..n}

\* Asset::from_u8: the fixed asset enumeration (1 = XENCAT, 2 = DGN).
Asset_from_u8(id) ==
    IF id = ASSET_XENCAT THEN "XENCAT"
    ELSE IF id = ASSET_DGN THEN "DGN"
    ELSE "InvalidAsset"

\* Mutant of InitFails: `init_if_needed`, which reuses an existing account.
InitFails_never(account) == FALSE

\* Account `init`: creating an account fails when the address is in use.
InitFails(account) == account.exists

\* Mutant of VerifiedBurnV3Seeds: the asset is not part of the address.
VerifiedBurnV3Seeds_noasset(asset_id, user, burn_nonce) ==
    <<ASSET_XENCAT, user, burn_nonce>>

\* The seeds of a VerifiedBurnV3 PDA: ["verified_burn_v3", asset_id, user,
\* burn_nonce].
VerifiedBurnV3Seeds(asset_id, user, burn_nonce) ==
    <<asset_id, user, burn_nonce>>

\* hash(DOMAIN_SEPARATOR || asset_id || version || nonce || amount || user).
\* Every field has a fixed width, so the concatenation is the tuple of the
\* fields; the hash is taken to be collision free.
create_attestation_message_v3(asset_id, burn_nonce, user, amount, version) ==
    <<"sha256", DOMAIN_SEPARATOR, asset_id, version, burn_nonce, amount, user>>

\* hash(DOMAIN_SEPARATOR || version || nonce || amount || user).
create_attestation_message(burn_nonce, user, amount, version) ==
    <<"sha256", DOMAIN_SEPARATOR, version, burn_nonce, amount, user>>

\* u64::to_le_bytes, and in general the n low bytes of x, lowest first.
RECURSIVE to_le_bytes(_, _)
to_le_bytes(x, n) ==
    IF n = 0 THEN <<>> ELSE <<x % 256>> \o to_le_bytes(x \div 256, n - 1)

\* Pubkey::to_bytes: the 32 bytes of a key; distinct keys have distinct bytes.
Pubkey_to_bytes(key) ==
    LET byte == CHOOSE b \in 1..8 :
                    key = <<"U1", "U2", "V1", "V2", "V3", "V4", "V5", "X">>[b]
    IN  [i \in 1..32 |-> byte]

\* Mutant of attestation_message_data_v3: the asset_id byte is not pushed.
attestation_message_data_v3_noasset(asset_id, burn_nonce, user, amount, version) ==
    <<DOMAIN_SEPARATOR>> \o to_le_bytes(version, 8)
        \o to_le_bytes(burn_nonce, 8) \o to_le_bytes(amount, 8)
        \o Pubkey_to_bytes(user)

\* The bytes create_attestation_message_v3 hashes: the domain separator, one
\* byte of asset_id, then version, nonce and amount as 8 little-endian bytes
\* each, then the 32 bytes of the user.
attestation_message_data_v3(asset_id, burn_nonce, user, amount, version) ==
    <<DOMAIN_SEPARATOR>> \o <<asset_id>> \o to_le_bytes(version, 8)
        \o to_le_bytes(burn_nonce, 8) \o to_le_bytes(amount, 8)
        \o Pubkey_to_bytes(user)

\* create_vote_message: keccak256(block_hash || slot as 8 little-endian
\* bytes); the hash is taken to be collision free.
create_vote_message(block_hash, slot) ==
    <<"keccak256", block_hash \o to_le_bytes(slot, 8)>>

\* u64::checked_mul and u64::checked_add: None when the result exceeds the
\* largest u64.
checked_mul(a, b) ==
    IF b # 0 /\ a > U64_MAX \div b THEN [some |-> FALSE, value |-> 0]
    ELSE [some |-> TRUE, value |-> a * b]

checked_add(a, b) ==
    IF a > U64_MAX - b THEN [some |-> FALSE, value |-> 0]
    ELSE [some |-> TRUE, value |-> a + b]

\* Mutant of consensus_threshold: the quotient is rounded down.
consensus_threshold_floor(total_stake) ==
    LET doubled == checked_mul(total_stake, 2)
    IN  IF ~doubled.some THEN [err |-> "ArithmeticOverflow", value |-> 0]
        ELSE [err |-> "ok", value |-> doubled.value \div 3]

\* ValidatorSet::consensus_threshold
consensus_threshold(total_stake) ==
    LET doubled == checked_mul(total_stake, 2)
        sum == checked_add(doubled.value, 2)
    IN  IF ~doubled.some THEN [err |-> "ArithmeticOverflow", value |-> 0]
        ELSE IF ~sum.some THEN [err |-> "ArithmeticOverflow", value |-> 0]
        ELSE [err |-> "ok", value |-> sum.value \div 3]

\* A signature is the (signer, message) pair it was produced from.
Sign(key, message) == [by |-> key, over |-> message]

\* What Ed25519 verification would decide.
Ed25519Valid(public_key, message, signature) ==
    signature.by = public_key /\ signature.over = message

\* verify_ed25519_signature of submit_burn_attestation_v3: format only.
verify_ed25519_signature_v3(public_key, message, signature) == "ok"

\* Mutant of AttestLoop: repeated keys are counted again.
RECURSIVE AttestLoop_nodup(_, _, _, _, _, _)
AttestLoop_nodup(atts, i, seen, valid_count, validators, message) ==
    IF i > Len(atts) THEN [err |-> "ok", valid_count |-> valid_count]
    ELSE IF ~Contains(validators, atts[i].validator_pubkey)
        THEN [err |-> "UnknownValidator", valid_count |-> valid_count]
    ELSE AttestLoop_nodup(atts, i + 1, seen, valid_count + 1, validators,
                          message)

\* The attestation loop of submit_burn_attestation_v3 / submit_burn_attestation:
\* returns the first error, or "ok" with the number of counted attestations.
RECURSIVE AttestLoop(_, _, _, _, _, _)
AttestLoop(atts, i, seen, valid_count, validators, message) ==
    IF i > Len(atts) THEN [err |-> "ok", valid_count |-> valid_count]
    ELSE IF atts[i].validator_pubkey \in seen
        THEN [err |-> "DuplicateValidator", valid_count |-> valid_count]
    ELSE IF ~Contains(validators, atts[i].validator_pubkey)
        THEN [err |-> "UnknownValidator", valid_count |-> valid_count]
    ELSE IF verify_ed25519_signature_v3(atts[i].validator_pubkey, message,
                                        atts[i].signature) # "ok"
        THEN [err |-> "InvalidSignatureFormat", valid_count |-> valid_count]
    ELSE AttestLoop(atts, i + 1, seen \cup {atts[i].validator_pubkey},
                    valid_count + 1, validators, message)

\* -------------------------------------------------------------------- state
VARIABLES
    validator_set,   \* X1ValidatorSet PDA ["x1_validator_set_v2"]
    verified_v3,     \* VerifiedBurnV3 PDAs, by <<asset_id, user, burn_nonce>>
    verified_v2,     \* VerifiedBurn PDAs, by <<user, burn_nonce>>
    processed_x3,    \* XENCAT ProcessedBurnV3 PDAs, by <<asset_id, nonce, user>>
    processed_d3,    \* DGN ProcessedBurnV3 PDAs, by <<asset_id, nonce, user>>
    processed_v2,    \* XENCAT ProcessedBurn PDAs, by burn_nonce
    mint_state_x,    \* XENCAT MintState PDA ["mint_state_v2"]
    mint_state_d,    \* DGN MintState PDA ["dgn_mint_state"]
    token_x,         \* XENCAT token balance of each owner
    token_d,         \* DGN token balance of each owner
    lamports,        \* native balance of each system account
    events,          \* the mint events emitted so far, in order
    mints_v3,        \* history: successful mint_from_burn_v3 calls per key
    mints_v2,        \* history: successful mint_from_burn calls per key
    submits_v3,      \* history: successful submit_burn_attestation_v3 per key
    exit_persists,   \* whether a controller's write to a light-client record is kept
    last,            \* the last instruction executed and its result
    request          \* the arguments of the last instruction executed

ledger == <<verified_v3, verified_v2, processed_x3, processed_d3, processed_v2,
            mint_state_x, mint_state_d, token_x, token_d, lamports, events,
            mints_v3, mints_v2, submits_v3, exit_persists>>

vars == <<validator_set, ledger, last, request>>

V3Keys == AssetIds \X Users \X Nonces
P3Keys == AssetIds \X Nonces \X Users
V2Keys == Users \X Nonces

NoVerifiedBurnV3 ==
    [exists |-> FALSE, asset_id |-> 0, burn_nonce |-> 0, user |-> "none",
     amount |-> 0, processed |-> FALSE]

NoVerifiedBurn ==
    [exists |-> FALSE, burn_nonce |-> 0, user |-> "none",
     amount |-> 0, processed |-> FALSE]

NoProcessedBurnV3 ==
    [exists |-> FALSE, asset_id |-> 0, nonce |-> 0, user |-> "none",
     amount |-> 0]

NoProcessedBurn ==
    [exists |-> FALSE, nonce |-> 0, user |-> "none", amount |-> 0]

NoRequest == [kind |-> "none"]

Idle == [op |-> "idle", err |-> "ok", user |-> "none", asset_id |-> 0,
         burn_nonce |-> 0]

\* initialize_validator_set(threshold)
InitValidatorSet(threshold) ==
    [version |-> 1, validators |-> InitialValidators, threshold |-> threshold]

\* initialize of a mint controller
InitMintState ==
    [fee_per_validator |-> FEE_PER_VALIDATOR, validator_set_version |-> 1,
     processed_burns_count |-> 0, total_minted |-> 0]

InitLedger ==
    /\ verified_v3 = [k \in V3Keys |-> NoVerifiedBurnV3]
    /\ verified_v2 = [k \in V2Keys |-> NoVerifiedBurn]
    /\ processed_x3 = [k \in P3Keys |-> NoProcessedBurnV3]
    /\ processed_d3 = [k \in P3Keys |-> NoProcessedBurnV3]
    /\ processed_v2 = [n \in Nonces |-> NoProcessedBurn]
    /\ mint_state_x = InitMintState
    /\ mint_state_d = InitMintState
    /\ token_x = [u \in Users |-> 0]
    /\ token_d = [u \in Users |-> 0]
    /\ lamports = [a \in AllKeys |->
                      IF a \in Users THEN UserInitialLamports ELSE 0]
    /\ events = <<>>
    /\ mints_v3 = [k \in V3Keys |-> 0]
    /\ mints_v2 = [k \in V2Keys |-> 0]
    /\ submits_v3 = [k \in V3Keys |-> 0]
    /\ exit_persists \in BOOLEAN
    /\ last = [op |-> "initialize", err |-> "ok", user |-> "none",
               asset_id |-> 0, burn_nonce |-> 0]
    /\ request = NoRequest

Init ==
    /\ \E threshold \in InitThresholds :
          validator_set = InitValidatorSet(threshold)
    /\ InitLedger

\* `last` and `request` observe the run: an instruction leaves its result in
\* `last` and its arguments in `request`, and the next instruction starts
\* once the observer has taken them, which changes nothing of the ledger.
Observed ==
    /\ last # Idle
    /\ request' = NoRequest
    /\ last' = Idle
    /\ UNCHANGED <<validator_set, ledger>>

\* ------------------------------------------- submit_burn_attestation_v3
\* Mutant of SubmitV3Error: the roster version is not compared.
SubmitV3Error_anyversion(user, asset_id, burn_nonce, attestation) ==
    LET message == create_attestation_message_v3(
                       attestation.asset_id, attestation.burn_nonce,
                       attestation.user, attestation.amount,
                       attestation.validator_set_version)
        loop == AttestLoop(attestation.attestations, 1, {}, 0,
                           validator_set.validators, message)
    IN  IF InitFails(verified_v3[VerifiedBurnV3Seeds(asset_id, user, burn_nonce)])
            THEN "AccountAlreadyInUse"
        ELSE IF attestation.asset_id # asset_id THEN "InvalidAttestation"
        ELSE IF attestation.burn_nonce # burn_nonce THEN "InvalidAttestation"
        ELSE IF Asset_from_u8(attestation.asset_id) = "InvalidAsset"
            THEN "InvalidAsset"
        ELSE IF loop.err # "ok" THEN loop.err
        ELSE IF ~(loop.valid_count >= validator_set.threshold)
            THEN "InsufficientAttestations"
        ELSE "ok"

\* Mutant of SubmitV3Error: the record account is not create-once.
SubmitV3Error_reinit(user, asset_id, burn_nonce, attestation) ==
    LET message == create_attestation_message_v3(
                       attestation.asset_id, attestation.burn_nonce,
                       attestation.user, attestation.amount,
                       attestation.validator_set_version)
        loop == AttestLoop(attestation.attestations, 1, {}, 0,
                           validator_set.validators, message)
    IN  IF attestation.asset_id # asset_id THEN "InvalidAttestation"
        ELSE IF attestation.burn_nonce # burn_nonce THEN "InvalidAttestation"
        ELSE IF Asset_from_u8(attestation.asset_id) = "InvalidAsset"
            THEN "InvalidAsset"
        ELSE IF attestation.validator_set_version # validator_set.version
            THEN "InvalidValidatorSetVersion"
        ELSE IF loop.err # "ok" THEN loop.err
        ELSE IF ~(loop.valid_count >= validator_set.threshold)
            THEN "InsufficientAttestations"
        ELSE "ok"

\* The error the instruction ends with ("ok" on success), in the order the
\* account validation and the handler reach their checks.
SubmitV3Error(user, asset_id, burn_nonce, attestation) ==
    LET message == create_attestation_message_v3(
                       attestation.asset_id, attestation.burn_nonce,
                       attestation.user, attestation.amount,
                       attestation.validator_set_version)
        loop == AttestLoop(attestation.attestations, 1, {}, 0,
                           validator_set.validators, message)
    IN  IF InitFails(verified_v3[VerifiedBurnV3Seeds(asset_id, user, burn_nonce)])
            THEN "AccountAlreadyInUse"
        ELSE IF attestation.asset_id # asset_id THEN "InvalidAttestation"
        ELSE IF attestation.burn_nonce # burn_nonce THEN "InvalidAttestation"
        ELSE IF Asset_from_u8(attestation.asset_id) = "InvalidAsset"
            THEN "InvalidAsset"
        ELSE IF attestation.validator_set_version # validator_set.version
            THEN "InvalidValidatorSetVersion"
        ELSE IF loop.err # "ok" THEN loop.err
        ELSE IF ~(loop.valid_count >= validator_set.threshold)
            THEN "InsufficientAttestations"
        ELSE "ok"

\* The VerifiedBurnV3 record the handler stores.
StoredVerifiedBurnV3(user, attestation) ==
    [exists |-> TRUE,
     asset_id |-> attestation.asset_id,
     burn_nonce |-> attestation.burn_nonce,
     user |-> user,
     amount |-> attestation.amount,
     processed |-> FALSE]

SubmitBurnAttestationV3(user, asset_id, burn_nonce, attestation) ==
    LET err == SubmitV3Error(user, asset_id, burn_nonce, attestation)
        key == VerifiedBurnV3Seeds(asset_id, user, burn_nonce)
    IN  /\ last' = [op |-> "submit_burn_attestation_v3", err |-> err,
                    user |-> user, asset_id |-> asset_id,
                    burn_nonce |-> burn_nonce]
        /\ request' = [attestation |-> attestation, kind |-> "attestation_v3"]
        /\ IF err = "ok"
           THEN /\ verified_v3' = [verified_v3 EXCEPT
                                     ![key] = StoredVerifiedBurnV3(user, attestation)]
                /\ submits_v3' = [submits_v3 EXCEPT ![key] = @ + 1]
           ELSE UNCHANGED <<verified_v3, submits_v3>>
        /\ UNCHANGED <<exit_persists, validator_set, verified_v2, processed_x3, processed_d3,
                       processed_v2, mint_state_x, mint_state_d, token_x,
                       token_d, lamports, events, mints_v3, mints_v2>>

\* ---------------------------------------------- submit_burn_attestation
SubmitV2Error(user, attestation) ==
    LET message == create_attestation_message(
                       attestation.burn_nonce, attestation.user,
                       attestation.amount, attestation.validator_set_version)
        loop == AttestLoop(attestation.attestations, 1, {}, 0,
                           validator_set.validators, message)
    IN  IF InitFails(verified_v2[<<user, attestation.burn_nonce>>])
            THEN "AccountAlreadyInUse"
        ELSE IF attestation.validator_set_version # validator_set.version
            THEN "InvalidValidatorSetVersion"
        ELSE IF loop.err # "ok" THEN loop.err
        ELSE IF ~(loop.valid_count >= validator_set.threshold)
            THEN "InsufficientAttestations"
        ELSE "ok"

StoredVerifiedBurn(user, attestation) ==
    [exists |-> TRUE,
     burn_nonce |-> attestation.burn_nonce,
     user |-> user,
     amount |-> attestation.amount,
     processed |-> FALSE]

\* Mutant of SubmitBurnAttestation: a successful submission also advances
\* the version of the validator set.
SubmitBurnAttestation_rotating(user, attestation) ==
    LET err == SubmitV2Error(user, attestation)
        key == <<user, attestation.burn_nonce>>
    IN  /\ last' = [op |-> "submit_burn_attestation", err |-> err,
                    user |-> user, asset_id |-> 0,
                    burn_nonce |-> attestation.burn_nonce]
        /\ request' = [attestation |-> attestation, kind |-> "attestation"]
        /\ verified_v2' =
              IF err = "ok"
              THEN [verified_v2 EXCEPT ![key] = StoredVerifiedBurn(user, attestation)]
              ELSE verified_v2
        /\ validator_set' =
              IF err = "ok"
              THEN [validator_set EXCEPT !.version = validator_set.version + 1]
              ELSE validator_set
        /\ UNCHANGED <<exit_persists, verified_v3, processed_x3, processed_d3,
                       processed_v2, mint_state_x, mint_state_d, token_x,
                       token_d, lamports, events, mints_v3, mints_v2,
                       submits_v3>>

\* submit_burn_attestation: the record is created when every check passes;
\* the validator set is read only.
SubmitBurnAttestation(user, attestation) ==
    LET err == SubmitV2Error(user, attestation)
        key == <<user, attestation.burn_nonce>>
    IN  /\ last' = [op |-> "submit_burn_attestation", err |-> err,
                    user |-> user, asset_id |-> 0,
                    burn_nonce |-> attestation.burn_nonce]
        /\ request' = [attestation |-> attestation, kind |-> "attestation"]
        /\ verified_v2' =
              IF err = "ok"
              THEN [verified_v2 EXCEPT ![key] = StoredVerifiedBurn(user, attestation)]
              ELSE verified_v2
        /\ UNCHANGED <<exit_persists, validator_set, verified_v3, processed_x3, processed_d3,
                       processed_v2, mint_state_x, mint_state_d, token_x,
                       token_d, lamports, events, mints_v3, mints_v2,
                       submits_v3>>

\* ------------------------------------------------- mint_from_burn_v3
\* Mutant of saturating_add: the sum wraps around.
saturating_add_wrapping(a, b) == (a + b) % (U64_MAX + 1)

\* u64::saturating_add
saturating_add(a, b) == IF a + b > U64_MAX THEN U64_MAX ELSE a + b

\* The `#[account(...)]` checks on verified_burn of MintFromBurnV3: the account
\* must be an initialised VerifiedBurnV3, then the four constraints in order.
VerifiedBurnV3Loaded(verified) ==
    IF ~verified.exists THEN "AccountNotInitialized" ELSE "ok"

VerifiedBurnV3Constraints(verified, user, burn_nonce, asset_id, replay) ==
    IF verified.processed THEN replay
    ELSE IF verified.user # user THEN "InvalidUser"
    ELSE IF verified.burn_nonce # burn_nonce THEN "NonceMismatch"
    ELSE IF verified.asset_id # asset_id THEN "AssetMismatch"
    ELSE "ok"

\* Mutant of MintAmount: an amount other than the record's.
MintAmount_other(verified) == verified.amount + 1

\* The amount the handler mints: read from the verified record.
MintAmount(verified) == verified.amount

\* Mutant of PayFees: the i-th target is paid whatever its key.
RECURSIVE PayFees_anytarget(_, _, _, _, _, _)
PayFees_anytarget(validators, i, remaining_accounts, user, fee, balances) ==
    IF i > Len(validators) THEN [err |-> "ok", lamports |-> balances]
    ELSE IF i > Len(remaining_accounts)
        THEN [err |-> "MissingValidatorAccount", lamports |-> balances]
    ELSE IF ~remaining_accounts[i].is_writable
        THEN [err |-> "ValidatorAccountNotWritable", lamports |-> balances]
    ELSE IF balances[user] < fee
        THEN [err |-> "InsufficientFunds", lamports |-> balances]
    ELSE PayFees_anytarget(validators, i + 1, remaining_accounts, user, fee,
                 [balances EXCEPT ![user] = @ - fee,
                                  ![remaining_accounts[i].key] = @ + fee])

\* The fee loop: one transfer of fee_per_validator from the user to the i-th
\* remaining account per validator, in roster order; the first failure aborts.
RECURSIVE PayFees(_, _, _, _, _, _)
PayFees(validators, i, remaining_accounts, user, fee, balances) ==
    IF i > Len(validators) THEN [err |-> "ok", lamports |-> balances]
    ELSE IF i > Len(remaining_accounts)
        THEN [err |-> "MissingValidatorAccount", lamports |-> balances]
    ELSE IF remaining_accounts[i].key # validators[i]
        THEN [err |-> "InvalidValidatorAccount", lamports |-> balances]
    ELSE IF ~remaining_accounts[i].is_writable
        THEN [err |-> "ValidatorAccountNotWritable", lamports |-> balances]
    ELSE IF balances[user] < fee
        THEN [err |-> "InsufficientFunds", lamports |-> balances]
    ELSE PayFees(validators, i + 1, remaining_accounts, user, fee,
                 [balances EXCEPT ![user] = @ - fee,
                                  ![validators[i]] = @ + fee])

\* Step 7 of the handler: checked total, then the loop when the fee is > 0.
DistributeFees(mint_state, remaining_accounts, user) ==
    IF mint_state.fee_per_validator * Len(validator_set.validators) > U64_MAX
        THEN [err |-> "Overflow", lamports |-> lamports]
    ELSE IF mint_state.fee_per_validator > 0
        THEN PayFees(validator_set.validators, 1, remaining_accounts, user,
                     mint_state.fee_per_validator, lamports)
    ELSE [err |-> "ok", lamports |-> lamports]

\* Mutant of TransactionResult: what a failed instruction wrote stays.
TransactionResult_partial(err, written, before) == written

\* An instruction that returns an error aborts its transaction: what it wrote
\* takes effect only when the handler returns Ok.
TransactionResult(err, written, before) ==
    IF err = "ok" THEN written ELSE before

\* Mutant of MintV3Error: the verified_burn account is not checked at all.
MintV3Error_unverified(own_asset, mint_state, processed, replay, user, burn_nonce, asset_id, token_owner, remaining_accounts) ==
    IF InitFails(processed[<<asset_id, burn_nonce, user>>])
        THEN "AccountAlreadyInUse"
    ELSE IF token_owner # user THEN "ConstraintRaw"
    ELSE IF validator_set.version # mint_state.validator_set_version
        THEN "ValidatorSetVersionMismatch"
    ELSE IF asset_id # own_asset THEN "AssetNotMintable"
    ELSE IF Asset_from_u8(asset_id) = "InvalidAsset" THEN "InvalidAsset"
    ELSE DistributeFees(mint_state, remaining_accounts, user).err

\* Mutant of MintV3Error: the handler does not compare asset_id with the
\* controller's own asset.
MintV3Error_anyasset(own_asset, mint_state, processed, replay, user, burn_nonce, asset_id, token_owner, remaining_accounts) ==
    LET verified == verified_v3[VerifiedBurnV3Seeds(asset_id, user, burn_nonce)]
        loaded == VerifiedBurnV3Loaded(verified)
        checked == VerifiedBurnV3Constraints(verified, user, burn_nonce,
                                             asset_id, replay)
    IN  IF loaded # "ok" THEN loaded
        ELSE IF InitFails(processed[<<asset_id, burn_nonce, user>>])
            THEN "AccountAlreadyInUse"
        ELSE IF token_owner # user THEN "ConstraintRaw"
        ELSE IF validator_set.version # mint_state.validator_set_version
            THEN "ValidatorSetVersionMismatch"
        ELSE IF checked # "ok" THEN checked
        ELSE IF Asset_from_u8(asset_id) = "InvalidAsset" THEN "InvalidAsset"
        ELSE DistributeFees(mint_state, remaining_accounts, user).err

\* Mutant of MintV3Error: the processed_burn account is not created once
\* and the record's processed flag is not checked.
MintV3Error_noreplay(own_asset, mint_state, processed, replay, user, burn_nonce, asset_id, token_owner, remaining_accounts) ==
    LET verified == verified_v3[VerifiedBurnV3Seeds(asset_id, user, burn_nonce)]
        loaded == VerifiedBurnV3Loaded(verified)
        checked == VerifiedBurnV3Constraints([verified EXCEPT !.processed = FALSE],
                                             user, burn_nonce, asset_id, replay)
    IN  IF loaded # "ok" THEN loaded
        ELSE IF token_owner # user THEN "ConstraintRaw"
        ELSE IF validator_set.version # mint_state.validator_set_version
            THEN "ValidatorSetVersionMismatch"
        ELSE IF checked # "ok" THEN checked
        ELSE IF asset_id # own_asset THEN "AssetNotMintable"
        ELSE IF Asset_from_u8(asset_id) = "InvalidAsset" THEN "InvalidAsset"
        ELSE DistributeFees(mint_state, remaining_accounts, user).err

\* Mutant of MintV3Error: a failure of the fee step does not fail the mint.
MintV3Error_feesoptional(own_asset, mint_state, processed, replay, user, burn_nonce, asset_id, token_owner, remaining_accounts) ==
    LET verified == verified_v3[VerifiedBurnV3Seeds(asset_id, user, burn_nonce)]
        loaded == VerifiedBurnV3Loaded(verified)
        checked == VerifiedBurnV3Constraints(verified, user, burn_nonce,
                                             asset_id, replay)
    IN  IF loaded # "ok" THEN loaded
        ELSE IF InitFails(processed[<<asset_id, burn_nonce, user>>])
            THEN "AccountAlreadyInUse"
        ELSE IF token_owner # user THEN "ConstraintRaw"
        ELSE IF validator_set.version # mint_state.validator_set_version
            THEN "ValidatorSetVersionMismatch"
        ELSE IF checked # "ok" THEN checked
        ELSE IF asset_id # own_asset THEN "AssetNotMintable"
        ELSE IF Asset_from_u8(asset_id) = "InvalidAsset" THEN "InvalidAsset"
        ELSE "ok"

\* Mutant of MintV3Error: the owner of the token account is not checked.
MintV3Error_anyowner(own_asset, mint_state, processed, replay, user, burn_nonce, asset_id, token_owner, remaining_accounts) ==
    LET verified == verified_v3[VerifiedBurnV3Seeds(asset_id, user, burn_nonce)]
        loaded == VerifiedBurnV3Loaded(verified)
        checked == VerifiedBurnV3Constraints(verified, user, burn_nonce,
                                             asset_id, replay)
    IN  IF loaded # "ok" THEN loaded
        ELSE IF InitFails(processed[<<asset_id, burn_nonce, user>>])
            THEN "AccountAlreadyInUse"
        ELSE IF validator_set.version # mint_state.validator_set_version
            THEN "ValidatorSetVersionMismatch"
        ELSE IF checked # "ok" THEN checked
        ELSE IF asset_id # own_asset THEN "AssetNotMintable"
        ELSE IF Asset_from_u8(asset_id) = "InvalidAsset" THEN "InvalidAsset"
        ELSE DistributeFees(mint_state, remaining_accounts, user).err

\* The error mint_from_burn_v3 ends with ("ok" on success).  `own_asset` is
\* the asset the controller mints, `processed` its ProcessedBurnV3 accounts.
MintV3Error(own_asset, mint_state, processed, replay, user, burn_nonce, asset_id, token_owner, remaining_accounts) ==
    LET verified == verified_v3[VerifiedBurnV3Seeds(asset_id, user, burn_nonce)]
        loaded == VerifiedBurnV3Loaded(verified)
        checked == VerifiedBurnV3Constraints(verified, user, burn_nonce,
                                             asset_id, replay)
    IN  IF loaded # "ok" THEN loaded
        ELSE IF InitFails(processed[<<asset_id, burn_nonce, user>>])
            THEN "AccountAlreadyInUse"
        ELSE IF token_owner # user THEN "ConstraintRaw"
        ELSE IF validator_set.version # mint_state.validator_set_version
            THEN "ValidatorSetVersionMismatch"
        ELSE IF checked # "ok" THEN checked
        ELSE IF asset_id # own_asset THEN "AssetNotMintable"
        ELSE IF Asset_from_u8(asset_id) = "InvalidAsset" THEN "InvalidAsset"
        ELSE DistributeFees(mint_state, remaining_accounts, user).err

StoredProcessedBurnV3(asset_id, burn_nonce, user, amount) ==
    [exists |-> TRUE, asset_id |-> asset_id, nonce |-> burn_nonce,
     user |-> user, amount |-> amount]

UpdatedMintState(mint_state, amount) ==
    [mint_state EXCEPT
        !.processed_burns_count = saturating_add(@, 1),
        !.total_minted = saturating_add(@, amount)]

MintedFromBurnV3(program, asset_id, burn_nonce, user, amount) ==
    [program |-> program, asset_id |-> asset_id, nonce |-> burn_nonce,
     user |-> user, amount |-> amount]

\* The mint controllers assign `processed` in a record account that the
\* light client program owns. On exit the framework serialises an account
\* only when the running program owns it, so the assignment reaches the
\* ledger in a build that persists it and is dropped in a build that does
\* not; exit_persists tells which build runs.
ForeignAccountExit(written, before) == IF exit_persists THEN written ELSE before

\* XENCAT controller
XencatMintFromBurnV3(user, burn_nonce, asset_id, token_owner, remaining_accounts) ==
    LET key == VerifiedBurnV3Seeds(asset_id, user, burn_nonce)
        err == MintV3Error(ASSET_XENCAT, mint_state_x, processed_x3,
                           "ProofAlreadyProcessed", user, burn_nonce,
                           asset_id, token_owner, remaining_accounts)
        amount == MintAmount(verified_v3[key])
    IN  /\ last' = [op |-> "xencat_mint_from_burn_v3", err |-> err,
                    user |-> user, asset_id |-> asset_id,
                    burn_nonce |-> burn_nonce]
        /\ request' = [kind |-> "mint", remaining_accounts |-> remaining_accounts,
                       token_owner |-> token_owner]
        /\ IF err = "ok"
           THEN /\ token_x' = [token_x EXCEPT ![token_owner] = @ + amount]
                /\ verified_v3' = ForeignAccountExit(
                      [verified_v3 EXCEPT ![key].processed = TRUE], verified_v3)
                /\ processed_x3' =
                      [processed_x3 EXCEPT ![<<asset_id, burn_nonce, user>>] =
                          StoredProcessedBurnV3(asset_id, burn_nonce, user, amount)]
                /\ mint_state_x' = UpdatedMintState(mint_state_x, amount)
                /\ events' = Append(events,
                      MintedFromBurnV3("xencat", asset_id, burn_nonce, user, amount))
                /\ mints_v3' = [mints_v3 EXCEPT ![key] = @ + 1]
           ELSE UNCHANGED <<token_x, verified_v3, processed_x3, mint_state_x,
                            events, mints_v3>>
        /\ lamports' = TransactionResult(err,
              DistributeFees(mint_state_x, remaining_accounts, user).lamports, lamports)
        /\ UNCHANGED <<exit_persists, validator_set, verified_v2, processed_d3, processed_v2,
                       mint_state_d, token_d, mints_v2, submits_v3>>

\* DGN controller
DgnMintFromBurnV3(user, burn_nonce, asset_id, token_owner, remaining_accounts) ==
    LET key == VerifiedBurnV3Seeds(asset_id, user, burn_nonce)
        err == MintV3Error(ASSET_DGN, mint_state_d, processed_d3,
                           "BurnAlreadyProcessed", user, burn_nonce,
                           asset_id, token_owner, remaining_accounts)
        amount == MintAmount(verified_v3[key])
    IN  /\ last' = [op |-> "dgn_mint_from_burn_v3", err |-> err,
                    user |-> user, asset_id |-> asset_id,
                    burn_nonce |-> burn_nonce]
        /\ request' = [kind |-> "mint", remaining_accounts |-> remaining_accounts,
                       token_owner |-> token_owner]
        /\ IF err = "ok"
           THEN /\ token_d' = [token_d EXCEPT ![token_owner] = @ + amount]
                /\ verified_v3' = ForeignAccountExit(
                      [verified_v3 EXCEPT ![key].processed = TRUE], verified_v3)
                /\ processed_d3' =
                      [processed_d3 EXCEPT ![<<asset_id, burn_nonce, user>>] =
                          StoredProcessedBurnV3(asset_id, burn_nonce, user, amount)]
                /\ mint_state_d' = UpdatedMintState(mint_state_d, amount)
                /\ events' = Append(events,
                      MintedFromBurnV3("dgn", asset_id, burn_nonce, user, amount))
                /\ mints_v3' = [mints_v3 EXCEPT ![key] = @ + 1]
           ELSE UNCHANGED <<token_d, verified_v3, processed_d3, mint_state_d,
                            events, mints_v3>>
        /\ lamports' = TransactionResult(err,
              DistributeFees(mint_state_d, remaining_accounts, user).lamports, lamports)
        /\ UNCHANGED <<exit_persists, validator_set, verified_v2, processed_x3, processed_v2,
                       mint_state_x, token_x, mints_v2, submits_v3>>

\* ---------------------------------------------------- mint_from_burn (V2)
VerifiedBurnConstraints(verified, user, burn_nonce) ==
    IF verified.processed THEN "ProofAlreadyProcessed"
    ELSE IF verified.user # user THEN "InvalidUser"
    ELSE IF verified.burn_nonce # burn_nonce THEN "NonceMismatch"
    ELSE "ok"

\* Mutant of MintV2Error: the handler does not compare the validator set's
\* version with MintState.validator_set_version.
MintV2Error_anyversion(user, burn_nonce, token_owner, remaining_accounts) ==
    LET verified == verified_v2[<<user, burn_nonce>>]
        checked == VerifiedBurnConstraints(verified, user, burn_nonce)
    IN  IF ~verified.exists THEN "AccountNotInitialized"
        ELSE IF InitFails(processed_v2[burn_nonce]) THEN "AccountAlreadyInUse"
        ELSE IF token_owner # user THEN "ConstraintRaw"
        ELSE IF checked # "ok" THEN checked
        ELSE DistributeFees(mint_state_x, remaining_accounts, user).err

MintV2Error(user, burn_nonce, token_owner, remaining_accounts) ==
    LET verified == verified_v2[<<user, burn_nonce>>]
        checked == VerifiedBurnConstraints(verified, user, burn_nonce)
    IN  IF ~verified.exists THEN "AccountNotInitialized"
        ELSE IF InitFails(processed_v2[burn_nonce]) THEN "AccountAlreadyInUse"
        ELSE IF token_owner # user THEN "ConstraintRaw"
        ELSE IF checked # "ok" THEN checked
        ELSE IF validator_set.version # mint_state_x.validator_set_version
            THEN "ValidatorSetVersionMismatch"
        ELSE DistributeFees(mint_state_x, remaining_accounts, user).err

StoredProcessedBurn(burn_nonce, user, amount) ==
    [exists |-> TRUE, nonce |-> burn_nonce, user |-> user, amount |-> amount]

MintFromBurn(user, burn_nonce, token_owner, remaining_accounts) ==
    LET key == <<user, burn_nonce>>
        err == MintV2Error(user, burn_nonce, token_owner, remaining_accounts)
        amount == verified_v2[key].amount
    IN  /\ last' = [op |-> "mint_from_burn", err |-> err, user |-> user,
                    asset_id |-> 0, burn_nonce |-> burn_nonce]
        /\ request' = [kind |-> "mint", remaining_accounts |-> remaining_accounts,
                       token_owner |-> token_owner]
        /\ IF err = "ok"
           THEN /\ token_x' = [token_x EXCEPT ![token_owner] = @ + amount]
                /\ verified_v2' = ForeignAccountExit(
                      [verified_v2 EXCEPT ![key].processed = TRUE], verified_v2)
                /\ processed_v2' = [processed_v2 EXCEPT ![burn_nonce] =
                                      StoredProcessedBurn(burn_nonce, user, amount)]
                /\ mint_state_x' = UpdatedMintState(mint_state_x, amount)
                /\ mints_v2' = [mints_v2 EXCEPT ![key] = @ + 1]
           ELSE UNCHANGED <<token_x, verified_v2, processed_v2, mint_state_x,
                            mints_v2>>
        /\ lamports' = TransactionResult(err,
              DistributeFees(mint_state_x, remaining_accounts, user).lamports, lamports)
        /\ UNCHANGED <<exit_persists, validator_set, verified_v3, processed_x3, processed_d3,
                       mint_state_d, token_d, events, mints_v3, submits_v3>>

\* ------------------------------------------------- update_validator_set
\* hash("VALIDATOR_UPDATE" || current_version || new_validators || new_threshold)
create_update_message(current_version, new_validators, new_threshold) ==
    <<"sha256", "VALIDATOR_UPDATE", current_version, new_validators,
      new_threshold>>

\* verify_ed25519_signature of update_validator_set: sizes and a non-empty
\* message, all of which the types already guarantee.
verify_ed25519_signature_update(pubkey, message, signature) ==
    IF Len(message) = 0 THEN "InvalidProofData" ELSE "ok"

\* Mutant of ApproverLoop: approvers outside the roster are counted.
RECURSIVE ApproverLoop_anyone(_, _, _, _, _, _)
ApproverLoop_anyone(sigs, i, seen, verified_count, current_validators, message) ==
    IF i > Len(sigs) THEN [err |-> "ok", verified_count |-> verified_count]
    ELSE IF sigs[i].validator_pubkey \in seen
        THEN [err |-> "DuplicateValidator", verified_count |-> verified_count]
    ELSE ApproverLoop_anyone(sigs, i + 1,
                             seen \cup {sigs[i].validator_pubkey},
                             verified_count + 1, current_validators, message)

\* The approver loop of verify_update_signatures.
RECURSIVE ApproverLoop(_, _, _, _, _, _)
ApproverLoop(sigs, i, seen, verified_count, current_validators, message) ==
    IF i > Len(sigs) THEN [err |-> "ok", verified_count |-> verified_count]
    ELSE IF sigs[i].validator_pubkey \in seen
        THEN [err |-> "DuplicateValidator", verified_count |-> verified_count]
    ELSE IF ~Contains(current_validators, sigs[i].validator_pubkey)
        THEN [err |-> "ValidatorNotInSet", verified_count |-> verified_count]
    ELSE IF verify_ed25519_signature_update(sigs[i].validator_pubkey, message,
                                            sigs[i].signature) # "ok"
        THEN [err |-> "InvalidProofData", verified_count |-> verified_count]
    ELSE ApproverLoop(sigs, i + 1, seen \cup {sigs[i].validator_pubkey},
                      verified_count + 1, current_validators, message)

verify_update_signatures(params, current_validators, current_threshold, current_version) ==
    LET message == create_update_message(current_version,
                       params.new_validators, params.new_threshold)
        loop == ApproverLoop(params.approver_signatures, 1, {}, 0,
                             current_validators, message)
    IN  IF Len(params.approver_signatures) = 0 THEN "InvalidValidatorSetUpdate"
        ELSE IF ~(Len(params.approver_signatures) >= current_threshold)
            THEN "InsufficientSignatures"
        ELSE IF loop.err # "ok" THEN loop.err
        ELSE IF ~(loop.verified_count >= current_threshold)
            THEN "InsufficientSignatures"
        ELSE "ok"

\* Mutant of UpdateValidatorSetError: new_threshold is not validated.
UpdateValidatorSetError_anythreshold(params) ==
    LET signed == verify_update_signatures(params, validator_set.validators,
                      validator_set.threshold, validator_set.version)
    IN  IF Len(params.new_validators) = 0 THEN "InvalidValidatorSetUpdate"
        ELSE IF signed # "ok" THEN signed
        ELSE IF validator_set.version + 1 > U64_MAX THEN "ArithmeticOverflow"
        ELSE IF Len(params.new_validators) > MAX_ROSTER_LEN
            THEN "AccountDidNotSerialize"
        ELSE "ok"

\* Mutant of UpdateValidatorSetError: the version is incremented unchecked.
UpdateValidatorSetError_unchecked(params) ==
    LET signed == verify_update_signatures(params, validator_set.validators,
                      validator_set.threshold, validator_set.version)
    IN  IF ~(Len(params.new_validators) >= params.new_threshold)
            THEN "InvalidThreshold"
        ELSE IF ~(params.new_threshold > 0) THEN "InvalidThreshold"
        ELSE IF Len(params.new_validators) = 0 THEN "InvalidValidatorSetUpdate"
        ELSE IF signed # "ok" THEN signed
        ELSE IF Len(params.new_validators) > MAX_ROSTER_LEN
            THEN "AccountDidNotSerialize"
        ELSE "ok"

\* The error update_validator_set ends with ("ok" on success).  The last
\* check is the account write-back: the account holds at most 10 keys.
UpdateValidatorSetError(params) ==
    LET signed == verify_update_signatures(params, validator_set.validators,
                      validator_set.threshold, validator_set.version)
    IN  IF ~(Len(params.new_validators) >= params.new_threshold)
            THEN "InvalidThreshold"
        ELSE IF ~(params.new_threshold > 0) THEN "InvalidThreshold"
        ELSE IF Len(params.new_validators) = 0 THEN "InvalidValidatorSetUpdate"
        ELSE IF signed # "ok" THEN signed
        ELSE IF validator_set.version + 1 > U64_MAX THEN "ArithmeticOverflow"
        ELSE IF Len(params.new_validators) > MAX_ROSTER_LEN
            THEN "AccountDidNotSerialize"
        ELSE "ok"

\* Mutant of RotatedValidatorSet: the version is not advanced.
RotatedValidatorSet_sameversion(params) ==
    [version |-> validator_set.version,
     validators |-> params.new_validators,
     threshold |-> params.new_threshold]

\* The ValidatorSet a successful update_validator_set writes.
RotatedValidatorSet(params) ==
    [version |-> validator_set.version + 1,
     validators |-> params.new_validators,
     threshold |-> params.new_threshold]

\* The versions at which rotations are explored: the first MaxVersion, and
\* the last two before the u64 maximum.
VersionExplored(version) ==
    version < MaxVersion \/ version >= U64_MAX - 1

UpdateValidatorSet(params) ==
    LET err == UpdateValidatorSetError(params)
    IN  /\ VersionExplored(validator_set.version)
        /\ last' = [op |-> "update_validator_set", err |-> err,
                    user |-> "none", asset_id |-> 0, burn_nonce |-> 0]
        /\ request' = [kind |-> "update", params |-> params]
        /\ validator_set' =
              IF err = "ok" THEN RotatedValidatorSet(params) ELSE validator_set
        /\ UNCHANGED ledger

\* ------------------------------------------------------------ requests
\* A batch: the listed validators each sign `signed`.
Batch(keys, signed) ==
    [i \in 1..Len(keys) |->
        [signature |-> Sign(keys[i], signed), validator_pubkey |-> keys[i]]]

RequestV3(asset_id, burn_nonce, user, amount, version, keys) ==
    [asset_id |-> asset_id, burn_nonce |-> burn_nonce, user |-> user,
     amount |-> amount, validator_set_version |-> version,
     attestations |->
        Batch(keys, create_attestation_message_v3(
                        asset_id, burn_nonce, user, amount, version))]

RequestV2(burn_nonce, user, amount, version, keys) ==
    [burn_nonce |-> burn_nonce, user |-> user,
     amount |-> amount, validator_set_version |-> version,
     attestations |->
        Batch(keys, create_attestation_message(
                        burn_nonce, user, amount, version))]

\* The amount each user's requests claim in the protocol runs.
ClaimedAmount(user) == IF user = "U1" THEN 1000 ELSE 2000

\* Approvals by the listed validators, each signing `signed`.
Approvals(keys, signed) ==
    [i \in 1..Len(keys) |->
        [signature |-> Sign(keys[i], signed), validator_pubkey |-> keys[i]]]

UpdateParams(new_validators, new_threshold, approvers) ==
    [new_validators |-> new_validators, new_threshold |-> new_threshold,
     approver_signatures |->
        Approvals(approvers, create_update_message(validator_set.version,
                                 new_validators, new_threshold))]

\* One writable fee target per validator of `validators`, in roster order.
FeeTargets(validators) ==
    [i \in 1..Len(validators) |-> [key |-> validators[i], is_writable |-> TRUE]]

\* The fee-target lists a caller may pass: the right one, and ones that miss
\* a target, name a wrong key or pass a read-only account.
FeeTargetLists ==
    LET right == FeeTargets(validator_set.validators)
        n == Len(right)
    IN  {right, <<>>, FeeTargets(InitialValidators)}
        \cup (IF n = 0 THEN {}
              ELSE {SubSeq(right, 1, n - 1),
                    [right EXCEPT ![n].key = "X"],
                    [right EXCEPT ![n].is_writable = FALSE]})

\* ------------------------------------------- Spec: the V3 protocol
\* Honest batches signed by V1 and V2, or by V1 alone.
HonestBatches == {<<"V1", "V2">>, <<"V1">>}

DoSubmitV3 ==
    /\ last = Idle
    /\ \E user \in Users, asset_id \in AssetIds, burn_nonce \in Nonces,
          keys \in HonestBatches :
        SubmitBurnAttestationV3(user, asset_id, burn_nonce,
            RequestV3(asset_id, burn_nonce, user, ClaimedAmount(user),
                      validator_set.version, keys))

DoXencatMintV3 ==
    /\ last = Idle
    /\ \E user \in Users, burn_nonce \in Nonces, asset_id \in AssetIds,
          token_owner \in Users, remaining_accounts \in FeeTargetLists :
        XencatMintFromBurnV3(user, burn_nonce, asset_id, token_owner,
                             remaining_accounts)

DoDgnMintV3 ==
    /\ last = Idle
    /\ \E user \in Users, burn_nonce \in Nonces, asset_id \in AssetIds,
          token_owner \in Users, remaining_accounts \in FeeTargetLists :
        DgnMintFromBurnV3(user, burn_nonce, asset_id, token_owner,
                          remaining_accounts)

DoUpdateValidatorSet ==
    /\ last = Idle
    /\ \E approvers \in {<<"V1", "V2">>, <<"V1">>} :
        UpdateValidatorSet(UpdateParams(<<"V1", "V2", "V3">>, 2, approvers))

Next ==
    DoSubmitV3 \/ DoXencatMintV3 \/ DoDgnMintV3 \/ DoUpdateValidatorSet
        \/ Observed

Spec == Init /\ [][Next]_vars

\* ------------- SpecMint: every mint path (V2 and V3), the roster fixed
DoSubmitV2 ==
    /\ last = Idle
    /\ \E user \in Users, burn_nonce \in Nonces :
        SubmitBurnAttestation(user,
            RequestV2(burn_nonce, user, ClaimedAmount(user),
                      validator_set.version, <<"V1", "V2">>))

DoMintV2 ==
    /\ last = Idle
    /\ \E user \in Users, burn_nonce \in Nonces,
          token_owner \in Users, remaining_accounts \in FeeTargetLists :
        MintFromBurn(user, burn_nonce, token_owner, remaining_accounts)

NextMint ==
    DoSubmitV2 \/ DoSubmitV3 \/ DoMintV2 \/ DoXencatMintV3 \/ DoDgnMintV3
        \/ Observed

SpecMint == Init /\ [][NextMint]_vars

\* ------------- SpecPin: every mint path (V2 and V3) and the rotation
NextPin ==
    DoSubmitV2 \/ DoSubmitV3 \/ DoMintV2 \/ DoXencatMintV3 \/ DoDgnMintV3
        \/ DoUpdateValidatorSet \/ Observed

SpecPin == Init /\ [][NextPin]_vars

\* ------------- SpecCount: V3 burns whose amounts fill the counters
\* Two amounts whose sum is one more than the largest counter value.
LargeAmount(user) ==
    IF user = "U1" THEN U64_MAX - U64_MAX \div 2 + 1 ELSE U64_MAX \div 2

DoSubmitV3Large ==
    /\ last = Idle
    /\ \E user \in Users, asset_id \in AssetIds, burn_nonce \in Nonces :
        SubmitBurnAttestationV3(user, asset_id, burn_nonce,
            RequestV3(asset_id, burn_nonce, user, LargeAmount(user),
                      validator_set.version, <<"V1", "V2">>))

NextCount ==
    DoSubmitV3Large \/ DoXencatMintV3 \/ DoDgnMintV3 \/ Observed

SpecCount == Init /\ [][NextCount]_vars

\* ------------- SpecMessage: the message constructors on pairs of inputs
\* Field values whose little-endian bytes differ in the first or in the
\* second byte only.
MessageValues == {0, 1, 256}

MessageInputs ==
    [asset_id : {ASSET_XENCAT, ASSET_DGN}, burn_nonce : MessageValues,
     user : Users, amount : MessageValues,
     validator_set_version : MessageValues]

BlockHashes == {[i \in 1..32 |-> 1], [i \in 1..32 |-> IF i = 32 THEN 0 ELSE 1]}

VoteInputs == [block_hash : BlockHashes, slot : MessageValues]

MessageV3Of(in) ==
    <<"sha256", attestation_message_data_v3(in.asset_id, in.burn_nonce,
                    in.user, in.amount, in.validator_set_version)>>

\* create_attestation_message_v3 is called on two inputs.
ApplyAttestationMessageV3 ==
    /\ last = Idle
    /\ \E a \in MessageInputs, b \in MessageInputs :
          /\ request' = [a |-> a, b |-> b, kind |-> "messages",
                         out_a |-> MessageV3Of(a), out_b |-> MessageV3Of(b)]
          /\ last' = [Idle EXCEPT !.op = "create_attestation_message_v3"]
    /\ UNCHANGED <<validator_set, ledger>>

\* create_vote_message is called on two inputs.
ApplyVoteMessage ==
    /\ last = Idle
    /\ \E a \in VoteInputs, b \in VoteInputs :
          /\ request' = [a |-> a, b |-> b, kind |-> "messages",
                         out_a |-> create_vote_message(a.block_hash, a.slot),
                         out_b |-> create_vote_message(b.block_hash, b.slot)]
          /\ last' = [Idle EXCEPT !.op = "create_vote_message"]
    /\ UNCHANGED <<validator_set, ledger>>

NextMessage == ApplyAttestationMessageV3 \/ ApplyVoteMessage \/ Observed

SpecMessage == Init /\ [][NextMessage]_vars

\* ------------- SpecThreshold: consensus_threshold on bounded stakes
MaxStake == 120

\* Small stakes, the stakes of the unit test, the stakes around half of the
\* largest u64, and the largest ones.
Stakes ==
    (0..MaxStake) \cup {300, 1000}
        \cup ((U64_MAX \div 2 - 3)..(U64_MAX \div 2 + 3))
        \cup {U64_MAX - 1, U64_MAX}

ApplyConsensusThreshold ==
    /\ last = Idle
    /\ \E total_stake \in Stakes :
          /\ request' = [kind |-> "stake", result |-> consensus_threshold(total_stake),
                         total_stake |-> total_stake]
          /\ last' = [Idle EXCEPT !.op = "consensus_threshold"]
    /\ UNCHANGED <<validator_set, ledger>>

NextThreshold == ApplyConsensusThreshold \/ Observed

SpecThreshold == Init /\ [][NextThreshold]_vars

\* ------------------- SpecAttest: arbitrary attestation requests
BatchKeys == {"V1", "V2", "X"}

\* What the attesting keys actually signed: the request's own canonical
\* message, the message of the same burn for the other asset, or nothing.
SignedV3(choice, asset_id, burn_nonce, user, amount, version) ==
    IF choice = "own"
        THEN create_attestation_message_v3(asset_id, burn_nonce, user, amount,
                                           version)
    ELSE IF choice = "other_asset"
        THEN create_attestation_message_v3(
                 IF asset_id = ASSET_XENCAT THEN ASSET_DGN ELSE ASSET_XENCAT,
                 burn_nonce, user, amount, version)
    ELSE <<"unrelated">>

\* The (asset_id, burn_nonce) an attestation may carry for instruction
\* arguments (asset_id, burn_nonce): the same, another asset, another nonce.
AttestedIds(asset_id, burn_nonce) ==
    {<<asset_id, burn_nonce>>,
     <<IF asset_id = ASSET_XENCAT THEN ASSET_DGN ELSE ASSET_XENCAT, burn_nonce>>,
     <<asset_id, burn_nonce + 1>>}

AnySubmitV3 ==
    /\ last = Idle
    /\ \E asset_id \in AssetIds, burn_nonce \in Nonces, attested_user \in Users,
       version \in 1..MaxVersion, keys \in SeqsUpTo(BatchKeys, MaxBatchLen),
       choice \in {"own", "other_asset", "none"} :
        \E ids \in AttestedIds(asset_id, burn_nonce) :
            SubmitBurnAttestationV3("U1", asset_id, burn_nonce,
                [asset_id |-> ids[1], burn_nonce |-> ids[2],
                 user |-> attested_user,
                 amount |-> ClaimedAmount(attested_user),
                 validator_set_version |-> version,
                 attestations |->
                    Batch(keys, SignedV3(choice, ids[1], ids[2], attested_user,
                              ClaimedAmount(attested_user), version))])

AnySubmitV2 ==
    /\ last = Idle
    /\ \E burn_nonce \in Nonces, attested_user \in Users,
       version \in 1..MaxVersion, keys \in SeqsUpTo(BatchKeys, MaxBatchLen),
       choice \in {"own", "none"} :
        SubmitBurnAttestation("U1",
            [burn_nonce |-> burn_nonce, user |-> attested_user,
             amount |-> ClaimedAmount(attested_user),
             validator_set_version |-> version,
             attestations |->
                Batch(keys,
                      IF choice = "own"
                      THEN create_attestation_message(burn_nonce, attested_user,
                               ClaimedAmount(attested_user), version)
                      ELSE <<"unrelated">>)])

RotateForAttest ==
    /\ last = Idle
    /\ \E approvers \in {<<"V1", "V2">>, <<"V2">>} :
        UpdateValidatorSet(UpdateParams(<<"V2", "X">>, 1, approvers))

NextAttest == AnySubmitV3 \/ AnySubmitV2 \/ RotateForAttest \/ Observed

SpecAttest == Init /\ [][NextAttest]_vars

\* ----------------------- SpecRotate: arbitrary rotation requests
RosterKeys == {"V1", "V2", "X"}
NewRosterKeys == {"V1", "X"}
MaxNewRoster == 2
MaxNewThreshold == 3

\* Any rotation request: any new roster and threshold, approvals by any keys,
\* signed for the current version or for the next one.
AnyUpdateValidatorSet ==
    /\ last = Idle
    /\ \E new_validators \in SeqsUpTo(NewRosterKeys, MaxNewRoster),
          new_threshold \in 0..MaxNewThreshold,
          approvers \in SeqsUpTo(RosterKeys, MaxApprovals),
          signed_version \in {validator_set.version, validator_set.version + 1} :
        UpdateValidatorSet(
            [new_validators |-> new_validators,
             new_threshold |-> new_threshold,
             approver_signatures |->
                Approvals(approvers, create_update_message(signed_version,
                                         new_validators, new_threshold))])

NextRotate == AnyUpdateValidatorSet \/ Observed

SpecRotate == Init /\ [][NextRotate]_vars

\* ------------- SpecOverflow: arbitrary rotations at the last versions
\* The ValidatorSet after U64_MAX - 2 rotations that each re-installed the
\* initial roster with threshold 2.
InitNearMax ==
    /\ validator_set = [version |-> U64_MAX - 1,
                        validators |-> InitialValidators, threshold |-> 2]
    /\ InitLedger

SpecOverflow == InitNearMax /\ [][NextRotate]_vars

\* ====================================================== the checked claims
MintOps == {"xencat_mint_from_burn_v3", "dgn_mint_from_burn_v3"}

LastKey == <<last.asset_id, last.user, last.burn_nonce>>

\* The tokens of asset `a` minted to user `u` if each minted key of theirs
\* with a nonce of `nonces` was minted once.
RECURSIVE MintedOnce(_, _, _)
MintedOnce(a, u, nonces) ==
    IF nonces = {} THEN 0
    ELSE LET n == CHOOSE x \in nonces : TRUE
         IN  (IF mints_v3[<<a, u, n>>] = 0 THEN 0
              ELSE verified_v3[<<a, u, n>>].amount)
             + MintedOnce(a, u, nonces \ {n})

\* C1 (Spec): after any interleaving of submit_burn_attestation_v3,
\* update_validator_set and mint_from_burn_v3, at most one mint_from_burn_v3
\* call has succeeded for every key (asset_id, user, burn_nonce), and each
\* user's balance is what a single mint per key gives.
AtMostOnceMint ==
    /\ \A k \in V3Keys : mints_v3[k] <= 1
    /\ \A u \in Users :
          /\ token_x[u] = MintedOnce(ASSET_XENCAT, u, Nonces)
          /\ token_d[u] = MintedOnce(ASSET_DGN, u, Nonces)

\* C1 witness: a key was minted and a second mint for it was just refused.
AtMostOnceMint_Witness ==
    /\ last.op \in MintOps
    /\ last.err = "AccountAlreadyInUse"
    /\ mints_v3[LastKey] = 1
    /\ token_x[last.user] + token_d[last.user] > 0

\* C3 (Spec): every successful mint_from_burn_v3 for a key follows a
\* successful submit_burn_attestation_v3 for that key and finds the
\* VerifiedBurnV3 record existing with processed = false; token balances
\* change in no other step.
NoMintWithoutVerification ==
    [][/\ \A k \in V3Keys :
             mints_v3'[k] > mints_v3[k] =>
                 /\ submits_v3[k] >= 1
                 /\ verified_v3[k].exists
                 /\ ~verified_v3[k].processed
                 /\ verified_v3'[k].processed = exit_persists
       /\ (token_x' # token_x \/ token_d' # token_d) =>
             \E k \in V3Keys : mints_v3'[k] > mints_v3[k]]_vars

\* C3 witness: a verified, unprocessed record was just minted.
NoMintWithoutVerification_Witness ==
    /\ last.op \in MintOps
    /\ last.err = "ok"
    /\ submits_v3[LastKey] = 1
    /\ mints_v3[LastKey] = 1
    /\ verified_v3[LastKey].processed

\* C6 (Spec): submit_burn_attestation_v3 succeeds at most once for a key; a
\* call for a key whose record exists, whatever its batch and whether or not
\* the record was minted, fails with the account-creation replay error and
\* leaves every VerifiedBurnV3 record unchanged; a call that succeeds found
\* no record and creates it, and the first call for a key of a known asset
\* with an honest batch that meets the threshold succeeds.
VerificationOnceOnly ==
    [][last'.op = "submit_burn_attestation_v3" =>
          LET k == <<last'.asset_id, last'.user, last'.burn_nonce>>
          IN  /\ submits_v3'[k] <= 1
              /\ verified_v3[k].exists =>
                    /\ last'.err = "AccountAlreadyInUse"
                    /\ verified_v3' = verified_v3
                    /\ submits_v3' = submits_v3
              /\ last'.err = "ok" =>
                    /\ ~verified_v3[k].exists
                    /\ verified_v3'[k].exists
                    /\ submits_v3'[k] = 1
              /\ (/\ ~verified_v3[k].exists
                  /\ k[1] \in {ASSET_XENCAT, ASSET_DGN}
                  /\ Len(request'.attestation.attestations)
                        >= validator_set.threshold) =>
                    last'.err = "ok"]_vars

\* C6 witness: a second submit for a key that was verified and minted, with
\* a batch other than the one that verified it, was just refused.
VerificationOnceOnly_Witness ==
    /\ last.op = "submit_burn_attestation_v3"
    /\ last.err = "AccountAlreadyInUse"
    /\ verified_v3[LastKey].processed
    /\ submits_v3[LastKey] = 1
    /\ Len(request.attestation.attestations) = 1
    /\ validator_set.threshold = 2

\* C9 (Spec), as the specification states it: once the roster is at version
\* 2, every existing unprocessed VerifiedBurnV3 record of a mintable asset
\* can be minted by its user with the right fee targets.
MintableAfterRotation ==
    \A k \in V3Keys :
        (/\ validator_set.version = 2
         /\ verified_v3[k].exists
         /\ ~verified_v3[k].processed
         /\ k[1] = ASSET_XENCAT
         /\ lamports[k[2]] >=
               mint_state_x.fee_per_validator * Len(validator_set.validators))
        => MintV3Error(ASSET_XENCAT, mint_state_x, processed_x3,
                       "ProofAlreadyProcessed", k[2], k[3], k[1], k[2],
                       FeeTargets(validator_set.validators)) = "ok"

\* C2 (SpecMint), as the specification states it: for XENCAT one source burn
\* (user, burn_nonce) is minted at most once in total, counting
\* mint_from_burn and mint_from_burn_v3 with asset_id = 1.
ExactlyOncePerBurn ==
    \A u \in Users, n \in Nonces :
        mints_v2[<<u, n>>] + mints_v3[<<ASSET_XENCAT, u, n>>] <= 1

SubmitOps == {"submit_burn_attestation_v3", "submit_burn_attestation"}

BatchKeysOf(batch) == [i \in 1..Len(batch) |-> batch[i].validator_pubkey]

HasDuplicate(keys) ==
    \E i, j \in 1..Len(keys) : i < j /\ keys[i] = keys[j]

HasNonMember(keys, roster) ==
    \E i \in 1..Len(keys) : ~Contains(roster, keys[i])

\* The indexes of the keys a loop over `keys` rejects: a key seen at an
\* earlier index, or one outside `roster`.
Offenders(keys, roster) ==
    {i \in 1..Len(keys) :
        \/ \E j \in 1..(i - 1) : keys[j] = keys[i]
        \/ ~Contains(roster, keys[i])}

FirstOffender(keys, roster) ==
    CHOOSE i \in Offenders(keys, roster) :
        \A j \in Offenders(keys, roster) : i <= j

\* The canonical V3 message of an attestation request.
CanonicalV3(att) ==
    create_attestation_message_v3(att.asset_id, att.burn_nonce, att.user,
                                  att.amount, att.validator_set_version)

\* C4 (SpecAttest), as the specification states it: a submit_burn_attestation_v3
\* call succeeds only on attestations whose signature is a valid signature by
\* validator_pubkey over the request's canonical message, so signatures made
\* for another asset never verify a request.
SignatureValidity ==
    (last.op = "submit_burn_attestation_v3" /\ last.err = "ok") =>
        \A i \in 1..Len(request.attestation.attestations) :
            Ed25519Valid(request.attestation.attestations[i].validator_pubkey,
                         CanonicalV3(request.attestation),
                         request.attestation.attestations[i].signature)

\* A submit call in the step reaches the version check: the record account
\* is free and, for V3, the attestation names the instruction's asset and
\* nonce and a known asset.
ReachesVersionCheck ==
    IF last'.op = "submit_burn_attestation_v3"
    THEN /\ ~verified_v3[<<last'.asset_id, last'.user, last'.burn_nonce>>].exists
         /\ request'.attestation.asset_id = last'.asset_id
         /\ request'.attestation.burn_nonce = last'.burn_nonce
         /\ request'.attestation.asset_id \in {ASSET_XENCAT, ASSET_DGN}
    ELSE ~verified_v2[<<last'.user, last'.burn_nonce>>].exists

\* ... and the attestation loop: the request also names the roster's version.
ReachesAttestLoop ==
    /\ ReachesVersionCheck
    /\ request'.attestation.validator_set_version = validator_set.version

\* The result of the quorum checks on a batch of keys, in the order of the
\* loop: the first rejected key decides, then the count.
ExpectedQuorumError(keys, roster, threshold) ==
    IF Offenders(keys, roster) # {}
    THEN IF \E j \in 1..(FirstOffender(keys, roster) - 1) :
                  keys[j] = keys[FirstOffender(keys, roster)]
         THEN "DuplicateValidator"
         ELSE "UnknownValidator"
    ELSE IF Len(keys) < threshold THEN "InsufficientAttestations"
    ELSE "ok"

\* C7 (SpecAttest), as the specification states it: of the submit calls that
\* reach the attestation loop, those that succeed have a batch of at least
\* threshold distinct roster members, every batch with a duplicate key fails
\* with DuplicateValidator, every batch with a non-member key fails with
\* UnknownValidator and every batch below the threshold fails with
\* InsufficientAttestations.
QuorumErrors_AsStated ==
    [][(last'.op \in SubmitOps /\ ReachesAttestLoop) =>
          LET keys == BatchKeysOf(request'.attestation.attestations)
              roster == validator_set.validators
          IN  /\ last'.err = "ok" =>
                    /\ Len(keys) >= validator_set.threshold
                    /\ ~HasDuplicate(keys)
                    /\ ~HasNonMember(keys, roster)
              /\ HasDuplicate(keys) => last'.err = "DuplicateValidator"
              /\ HasNonMember(keys, roster) => last'.err = "UnknownValidator"
              /\ Len(keys) < validator_set.threshold =>
                    last'.err = "InsufficientAttestations"]_vars

\* C7 (SpecAttest), amended: a submit call (V3 or V2) creates a record only
\* if its batch has at least threshold attestations, all by distinct members
\* of the current roster; a call that reaches the attestation loop ends with
\* the result of the first failing check in loop order: DuplicateValidator
\* or UnknownValidator for the first rejected key, InsufficientAttestations
\* when no key is rejected and the batch is below the threshold.
Quorum ==
    [][last'.op \in SubmitOps =>
          LET keys == BatchKeysOf(request'.attestation.attestations)
              roster == validator_set.validators
          IN  /\ last'.err = "ok" =>
                    /\ Len(keys) >= validator_set.threshold
                    /\ ~HasDuplicate(keys)
                    /\ ~HasNonMember(keys, roster)
              /\ (verified_v3' # verified_v3 \/ verified_v2' # verified_v2) =>
                    last'.err = "ok"
              /\ ReachesAttestLoop =>
                    last'.err = ExpectedQuorumError(keys, roster,
                                                    validator_set.threshold)]_vars

\* C7 witness: a batch with a repeated member key and then a non-member key
\* was just refused with DuplicateValidator.
Quorum_Witness ==
    /\ last.op = "submit_burn_attestation_v3"
    /\ last.err = "DuplicateValidator"
    /\ HasNonMember(BatchKeysOf(request.attestation.attestations),
                    validator_set.validators)
    /\ HasDuplicate(BatchKeysOf(request.attestation.attestations))

\* C8 (SpecAttest), as the specification states it: every
\* submit_burn_attestation_v3 call whose validator_set_version differs from
\* ValidatorSet.version fails with InvalidValidatorSetVersion and creates no
\* record.
StaleRoster_AsStated ==
    [][(/\ last'.op = "submit_burn_attestation_v3"
        /\ request'.attestation.validator_set_version # validator_set.version)
       => /\ last'.err = "InvalidValidatorSetVersion"
          /\ verified_v3' = verified_v3]_vars

\* C8 (SpecAttest), amended: every submit_burn_attestation_v3 call whose
\* validator_set_version differs from ValidatorSet.version fails and creates
\* no record; it fails with InvalidValidatorSetVersion when the record
\* account is free and the attestation names the instruction's asset and
\* nonce and a known asset, and otherwise with the error of that earlier
\* check (AccountAlreadyInUse, InvalidAttestation, InvalidAsset).
StaleRoster ==
    [][(/\ last'.op = "submit_burn_attestation_v3"
        /\ request'.attestation.validator_set_version # validator_set.version)
       => /\ last'.err \in {"AccountAlreadyInUse", "InvalidAttestation",
                            "InvalidAsset", "InvalidValidatorSetVersion"}
          /\ ReachesVersionCheck => last'.err = "InvalidValidatorSetVersion"
          /\ verified_v3' = verified_v3
          /\ submits_v3' = submits_v3]_vars

\* C8 witness: after a rotation to version 2 a batch by V1 and V2, signed for
\* version 1, was just refused with InvalidValidatorSetVersion.
StaleRoster_Witness ==
    /\ validator_set.version = 2
    /\ last.op = "submit_burn_attestation_v3"
    /\ last.err = "InvalidValidatorSetVersion"
    /\ request.attestation.validator_set_version = 1
    /\ BatchKeysOf(request.attestation.attestations) = <<"V1", "V2">>
    /\ \A i \in 1..2 :
          Ed25519Valid(request.attestation.attestations[i].validator_pubkey,
                       CanonicalV3(request.attestation),
                       request.attestation.attestations[i].signature)

\* The rotation request of the step passes the parameter checks that precede
\* the approvals.
RotationParamsPass ==
    /\ Len(request'.params.new_validators) >= request'.params.new_threshold
    /\ request'.params.new_threshold > 0

\* The result of the approval checks, in the order of verify_update_signatures.
ExpectedApprovalError(keys, roster, threshold) ==
    IF Len(keys) = 0 THEN "InvalidValidatorSetUpdate"
    ELSE IF Len(keys) < threshold THEN "InsufficientSignatures"
    ELSE IF Offenders(keys, roster) # {}
    THEN IF \E j \in 1..(FirstOffender(keys, roster) - 1) :
                  keys[j] = keys[FirstOffender(keys, roster)]
         THEN "DuplicateValidator"
         ELSE "ValidatorNotInSet"
    ELSE "ok"

\* C10 (SpecRotate), as the specification states it: of the rotations whose
\* parameters are valid, those that succeed carry at least threshold
\* approvals, all by distinct members of the pre-rotation roster; every one
\* with a repeated approver fails with DuplicateValidator, every one with an
\* approver outside the roster fails with ValidatorNotInSet, every one with
\* fewer approvals than the threshold fails with InsufficientSignatures, and
\* a failing rotation leaves the ValidatorSet unchanged.
RotationErrors_AsStated ==
    [][(last'.op = "update_validator_set" /\ RotationParamsPass) =>
          LET keys == BatchKeysOf(request'.params.approver_signatures)
              roster == validator_set.validators
          IN  /\ last'.err = "ok" =>
                    /\ Len(keys) >= validator_set.threshold
                    /\ ~HasDuplicate(keys)
                    /\ ~HasNonMember(keys, roster)
              /\ HasDuplicate(keys) => last'.err = "DuplicateValidator"
              /\ HasNonMember(keys, roster) => last'.err = "ValidatorNotInSet"
              /\ Len(keys) < validator_set.threshold =>
                    last'.err = "InsufficientSignatures"
              /\ last'.err # "ok" => validator_set' = validator_set]_vars

\* C10 (SpecRotate), amended: update_validator_set succeeds only if the
\* approvals are non-empty, at least the current threshold in number and all
\* by distinct members of the pre-rotation roster; every failing call leaves
\* the ValidatorSet unchanged; a call with valid parameters ends with the
\* result of the first failing approval check: InvalidValidatorSetUpdate for
\* no approvals, InsufficientSignatures for fewer than the threshold, then
\* DuplicateValidator or ValidatorNotInSet for the first rejected approver.
RotationAuthorization ==
    [][last'.op = "update_validator_set" =>
          LET keys == BatchKeysOf(request'.params.approver_signatures)
              roster == validator_set.validators
          IN  /\ last'.err = "ok" =>
                    /\ Len(keys) > 0
                    /\ Len(keys) >= validator_set.threshold
                    /\ ~HasDuplicate(keys)
                    /\ ~HasNonMember(keys, roster)
                    /\ validator_set'.version = validator_set.version + 1
              /\ last'.err # "ok" => validator_set' = validator_set
              /\ RotationParamsPass =>
                    last'.err = ExpectedApprovalError(keys, roster,
                                    validator_set.threshold)]_vars

\* C10 witness: under threshold 2, a rotation with valid parameters and a
\* single approval by a key outside the roster was just refused with
\* InsufficientSignatures, the ValidatorSet still the initial one.
RotationAuthorization_Witness ==
    /\ last.op = "update_validator_set"
    /\ last.err = "InsufficientSignatures"
    /\ validator_set = InitValidatorSet(2)
    /\ request.params.new_threshold = 1
    /\ Len(request.params.new_validators) = 2
    /\ BatchKeysOf(request.params.approver_signatures) = <<"X">>

\* C11 (SpecRotate): every successful update_validator_set sets the version
\* to the old version + 1 and the validators and threshold to new_validators
\* and new_threshold; no other step changes the ValidatorSet, so the version
\* never decreases and grows by one with each successful rotation.
RotationEffect ==
    [][/\ (last'.op = "update_validator_set" /\ last'.err = "ok") =>
             /\ validator_set'.version = validator_set.version + 1
             /\ validator_set'.validators = request'.params.new_validators
             /\ validator_set'.threshold = request'.params.new_threshold
       /\ validator_set' # validator_set =>
             (last'.op = "update_validator_set" /\ last'.err = "ok")
       /\ validator_set'.version >= validator_set.version]_vars

\* C11 witness: the second successful rotation just installed roster [X]
\* with threshold 1 at version 3.
RotationEffect_Witness ==
    /\ last.op = "update_validator_set"
    /\ last.err = "ok"
    /\ validator_set = [version |-> 3, validators |-> <<"X">>, threshold |-> 1]

\* C12 (SpecRotate), as the specification states it: in every reachable state
\* threshold > 0 and threshold <= len(validators).
ThresholdInvariant ==
    /\ validator_set.threshold > 0
    /\ validator_set.threshold <= Len(validator_set.validators)

\* C13 (SpecRotate), as the specification states it: in every reachable state
\* the roster has at most 10 entries, pairwise distinct.
RosterIsBoundedSet ==
    /\ Len(validator_set.validators) <= MAX_ROSTER_LEN
    /\ ~HasDuplicate(validator_set.validators)

\* The result of an honest first submit_burn_attestation_v3 for key k.
HonestSubmitResult(k) ==
    SubmitV3Error(k[2], k[1], k[3],
        RequestV3(k[1], k[3], k[2], ClaimedAmount(k[2]),
                  validator_set.version, <<"V1", "V2">>))

\* The result of a well-formed mint_from_burn_v3 for key k on each controller.
XencatMintResult(k) ==
    MintV3Error(ASSET_XENCAT, mint_state_x, processed_x3,
                "ProofAlreadyProcessed", k[2], k[3], k[1], k[2],
                FeeTargets(validator_set.validators))

DgnMintResult(k) ==
    MintV3Error(ASSET_DGN, mint_state_d, processed_d3,
                "BurnAlreadyProcessed", k[2], k[3], k[1], k[2],
                FeeTargets(validator_set.validators))

\* C14 (Spec): the record keys of one (user, burn_nonce) under two assets
\* differ, and a submit_burn_attestation_v3 or mint_from_burn_v3 step for one
\* asset leaves every verified and processed record of every other asset
\* unchanged, and leaves unchanged the result a submit or a mint for any key
\* of another asset would have.
AssetNamespacing ==
    [][(last'.op \in MintOps \cup {"submit_burn_attestation_v3"}) =>
          \A k \in V3Keys :
              k[1] # last'.asset_id =>
                  /\ VerifiedBurnV3Seeds(k[1], k[2], k[3])
                        # VerifiedBurnV3Seeds(last'.asset_id, k[2], k[3])
                  /\ verified_v3'[k] = verified_v3[k]
                  /\ processed_x3'[<<k[1], k[3], k[2]>>]
                        = processed_x3[<<k[1], k[3], k[2]>>]
                  /\ processed_d3'[<<k[1], k[3], k[2]>>]
                        = processed_d3[<<k[1], k[3], k[2]>>]
                  /\ mints_v3'[k] = mints_v3[k]
                  /\ submits_v3'[k] = submits_v3[k]
                  /\ HonestSubmitResult(k)' = HonestSubmitResult(k)
                  /\ XencatMintResult(k)' = XencatMintResult(k)
                  /\ DgnMintResult(k)' = DgnMintResult(k)]_vars

\* C14 witness: U1's burn 7 was verified and minted as XENCAT, and its DGN
\* namesake was just minted too.
AssetNamespacing_Witness ==
    /\ last.op = "dgn_mint_from_burn_v3"
    /\ last.err = "ok"
    /\ last.user = "U1"
    /\ \E n \in Nonces :
          /\ last.burn_nonce = n
          /\ mints_v3[<<ASSET_XENCAT, "U1", n>>] = 1
          /\ mints_v3[<<ASSET_DGN, "U1", n>>] = 1
          /\ processed_x3[<<ASSET_XENCAT, n, "U1">>].exists
          /\ processed_d3[<<ASSET_DGN, n, "U1">>].exists

\* ------------------------------------------------ claims on the mint checks
OwnAsset(op) == IF op = "xencat_mint_from_burn_v3" THEN ASSET_XENCAT ELSE ASSET_DGN

OwnMintState(op) ==
    IF op = "xencat_mint_from_burn_v3" THEN mint_state_x ELSE mint_state_d

OwnProcessed(op) ==
    IF op = "xencat_mint_from_burn_v3" THEN processed_x3 ELSE processed_d3

OwnReplayError(op) ==
    IF op = "xencat_mint_from_burn_v3" THEN "ProofAlreadyProcessed"
    ELSE "BurnAlreadyProcessed"

\* The accounts of the mint_from_burn_v3 call (op, key k, token_owner) pass
\* the account validation that runs before the handler, in the state before
\* the call.
MintAccountsValid(op, k, token_owner) ==
    /\ VerifiedBurnV3Loaded(verified_v3[k]) = "ok"
    /\ ~InitFails(OwnProcessed(op)[<<k[1], k[3], k[2]>>])
    /\ token_owner = k[2]
    /\ validator_set.version = OwnMintState(op).validator_set_version
    /\ VerifiedBurnV3Constraints(verified_v3[k], k[2], k[3], k[1],
                                 OwnReplayError(op)) = "ok"

\* C15 as stated (Spec): every mint_from_burn_v3 call with an asset_id other
\* than the controller's own fails with AssetNotMintable.
AssetNotMintable_AsStated ==
    [][(last'.op \in MintOps /\ last'.asset_id # OwnAsset(last'.op)) =>
          last'.err = "AssetNotMintable"]_vars

\* C15 amended (Spec): a mint_from_burn_v3 call with an asset_id other than
\* the controller's own always fails and changes no token balance, fee
\* balance, record or counter; it fails with AssetNotMintable when its
\* accounts pass the account validation, and with the error of that
\* validation otherwise.  Tokens of a controller are only ever minted by a
\* call for its own asset_id, from a record of that asset.
ControllerAssetBinding ==
    [][/\ (last'.op \in MintOps /\ last'.asset_id # OwnAsset(last'.op)) =>
             /\ last'.err # "ok"
             /\ ledger' = ledger
             /\ validator_set' = validator_set
             /\ MintAccountsValid(last'.op,
                    <<last'.asset_id, last'.user, last'.burn_nonce>>,
                    request'.token_owner)
                  <=> last'.err = "AssetNotMintable"
       /\ token_x' # token_x =>
             /\ last'.op = "xencat_mint_from_burn_v3"
             /\ last'.asset_id = ASSET_XENCAT
             /\ verified_v3[<<ASSET_XENCAT, last'.user, last'.burn_nonce>>].asset_id
                   = ASSET_XENCAT
       /\ token_d' # token_d =>
             /\ last'.op = "dgn_mint_from_burn_v3"
             /\ last'.asset_id = ASSET_DGN
             /\ verified_v3[<<ASSET_DGN, last'.user, last'.burn_nonce>>].asset_id
                   = ASSET_DGN]_vars

\* C15 witness: the XENCAT controller was called for a verified, unminted DGN
\* burn and refused it.
ControllerAssetBinding_Witness ==
    /\ last.op = "xencat_mint_from_burn_v3"
    /\ last.asset_id = ASSET_DGN
    /\ last.err = "AssetNotMintable"
    /\ verified_v3[<<ASSET_DGN, last.user, last.burn_nonce>>].exists
    /\ ~verified_v3[<<ASSET_DGN, last.user, last.burn_nonce>>].processed
    /\ \A u \in Users : token_x[u] = 0 /\ token_d[u] = 0

AllMintOps == MintOps \cup {"mint_from_burn"}

\* The MintState.validator_set_version the controller of `op` compares with.
PinnedVersion(op) ==
    IF op = "dgn_mint_from_burn_v3" THEN mint_state_d.validator_set_version
    ELSE mint_state_x.validator_set_version

\* The checks that run before the version comparison pass, in the state
\* before the call: the account validation of mint_from_burn_v3, and for
\* mint_from_burn also the record checks at the head of the handler.
MintReachesVersionCheck(op, user, asset_id, burn_nonce, token_owner) ==
    IF op = "mint_from_burn"
        THEN /\ verified_v2[<<user, burn_nonce>>].exists
             /\ ~InitFails(processed_v2[burn_nonce])
             /\ token_owner = user
             /\ VerifiedBurnConstraints(verified_v2[<<user, burn_nonce>>],
                                        user, burn_nonce) = "ok"
        ELSE /\ asset_id \in AssetIds
             /\ VerifiedBurnV3Loaded(
                    verified_v3[VerifiedBurnV3Seeds(asset_id, user, burn_nonce)])
                  = "ok"
             /\ ~InitFails(OwnProcessed(op)[<<asset_id, burn_nonce, user>>])
             /\ token_owner = user

\* C16 as stated (SpecPin): every mint call made while the validator set's
\* version differs from MintState.validator_set_version fails with
\* ValidatorSetVersionMismatch.
VersionPin_AsStated ==
    [][(last'.op \in AllMintOps
          /\ validator_set.version # PinnedVersion(last'.op)) =>
          last'.err = "ValidatorSetVersionMismatch"]_vars

\* C16 amended (SpecPin): a mint_from_burn_v3 or mint_from_burn call made
\* while the validator set's version differs from
\* MintState.validator_set_version always fails, and no token, fee balance,
\* VerifiedBurn record, ProcessedBurn record or MintState changes; it fails
\* with ValidatorSetVersionMismatch exactly when the checks that precede the
\* version comparison pass.  A mint fails with ValidatorSetVersionMismatch
\* only when the versions differ.
VersionPin ==
    [][last'.op \in AllMintOps =>
          /\ validator_set.version # PinnedVersion(last'.op) =>
                /\ last'.err # "ok"
                /\ ledger' = ledger
                /\ validator_set' = validator_set
                /\ MintReachesVersionCheck(last'.op, last'.user,
                       last'.asset_id, last'.burn_nonce, request'.token_owner)
                     <=> last'.err = "ValidatorSetVersionMismatch"
          /\ last'.err = "ValidatorSetVersionMismatch" =>
                validator_set.version # PinnedVersion(last'.op)]_vars

\* C16 witness: after a rotation, the mint_from_burn of a verified, unminted
\* burn was refused for the version, while the other controller had minted
\* a V3 burn before the rotation.
VersionPin_Witness ==
    /\ last.op = "mint_from_burn"
    /\ last.err = "ValidatorSetVersionMismatch"
    /\ validator_set.version = 2
    /\ mint_state_x.validator_set_version = 1
    /\ verified_v2[<<last.user, last.burn_nonce>>].exists
    /\ ~verified_v2[<<last.user, last.burn_nonce>>].processed
    /\ token_x[last.user] = 0
    /\ \E u \in Users : token_d[u] > 0

\* The errors by which a mint is refused because its key was minted before.
ReplayErrors == {"AccountAlreadyInUse", "ProofAlreadyProcessed", "BurnAlreadyProcessed"}

\* The result of the mint_from_burn_v3 call of controller `op` for key k.
MintResult(op, k, token_owner, remaining_accounts) ==
    MintV3Error(OwnAsset(op), OwnMintState(op), OwnProcessed(op),
                OwnReplayError(op), k[2], k[3], k[1], token_owner,
                remaining_accounts)

\* Every further mint_from_burn_v3 attempt of controller `op` for key k,
\* whatever its token account and fee targets, is refused as a replay.
SecondAttemptRefused(op, k) ==
    \A token_owner \in Users, remaining_accounts \in FeeTargetLists :
        MintResult(op, k, token_owner, remaining_accounts) \in ReplayErrors

OwnTokens(op) == IF op = "xencat_mint_from_burn_v3" THEN token_x ELSE token_d

\* C17 (Spec): transactions run one after the other, so of two
\* mint_from_burn_v3 attempts for one (asset_id, user, burn_nonce) the one
\* that runs first and succeeds creates the ProcessedBurnV3 record, mints the
\* record's amount once and pays the fees once, and from then on every
\* attempt for the key, in particular the other one, fails with a replay
\* error and changes nothing.
MintRace ==
    [][\A op \in MintOps, k \in V3Keys :
          (last'.op = op /\ LastKey' = k) =>
              /\ last'.err = "ok" =>
                    /\ ~OwnProcessed(op)[<<k[1], k[3], k[2]>>].exists
                    /\ OwnProcessed(op)'[<<k[1], k[3], k[2]>>].exists
                    /\ mints_v3'[k] = mints_v3[k] + 1
                    /\ OwnTokens(op)'[k[2]]
                          = OwnTokens(op)[k[2]] + verified_v3[k].amount
                    /\ lamports'[k[2]] = lamports[k[2]]
                          - OwnMintState(op).fee_per_validator
                              * Len(validator_set.validators)
                    /\ SecondAttemptRefused(op, k)'
              /\ OwnProcessed(op)[<<k[1], k[3], k[2]>>].exists =>
                    /\ last'.err \in ReplayErrors
                    /\ ledger' = ledger]_vars

\* C17 witness: of two attempts for U2's XENCAT burn the second was just
\* refused; the tokens were minted once and the five fees paid once.
MintRace_Witness ==
    /\ last.op = "xencat_mint_from_burn_v3"
    /\ last.user = "U2"
    /\ last.asset_id = ASSET_XENCAT
    /\ last.err \in ReplayErrors
    /\ mints_v3[LastKey] = 1
    /\ token_x["U2"] = ClaimedAmount("U2")
    /\ lamports["U2"] = UserInitialLamports
                           - FEE_PER_VALIDATOR * Len(InitialValidators)
    /\ \A i \in 1..Len(InitialValidators) :
          lamports[InitialValidators[i]] = FEE_PER_VALIDATOR

\* C18 (Spec): every mint_from_burn_v3 call for a key whose ProcessedBurnV3
\* record already exists fails with BurnAlreadyProcessed, in both
\* controllers.
ReplayIsBurnAlreadyProcessed ==
    [][\A op \in MintOps, k \in V3Keys :
          (/\ last'.op = op
           /\ LastKey' = k
           /\ OwnProcessed(op)[<<k[1], k[3], k[2]>>].exists) =>
              last'.err = "BurnAlreadyProcessed"]_vars

\* ------------------------------------------------------ claims on the fees
\* The fee_per_validator of the MintState the controller of `op` reads.
OwnFee(op) ==
    IF op = "dgn_mint_from_burn_v3" THEN mint_state_d.fee_per_validator
    ELSE mint_state_x.fee_per_validator

\* How many times key `a` occurs in the roster.
Occurrences(roster, a) == Cardinality({i \in 1..Len(roster) : roster[i] = a})

\* With fee_per_validator = 0 the fee step succeeds and moves no lamports,
\* whatever fee targets are passed.
ZeroFeeNoTransfer ==
    \A user \in Users, remaining_accounts \in FeeTargetLists :
        DistributeFees([mint_state_x EXCEPT !.fee_per_validator = 0],
                       remaining_accounts, user)
            = [err |-> "ok", lamports |-> lamports]

\* C19 (SpecMint): every successful mint_from_burn_v3 and mint_from_burn was
\* given, for each index i of the validator set, a writable fee target whose
\* key is the i-th validator; it credits each validator fee_per_validator
\* per place it holds in the roster, debits the minting user
\* fee_per_validator * len(validators), and leaves every other balance alone.
\* Lamports move in no other step, and at fee_per_validator = 0 the fee step
\* moves none.
FeeDistribution ==
    [][/\ \A op \in AllMintOps :
             (last'.op = op /\ last'.err = "ok") =>
                 /\ OwnFee(op) > 0
                 /\ Len(request'.remaining_accounts)
                       >= Len(validator_set.validators)
                 /\ \A i \in 1..Len(validator_set.validators) :
                       /\ request'.remaining_accounts[i].key
                             = validator_set.validators[i]
                       /\ request'.remaining_accounts[i].is_writable
                 /\ \A a \in AllKeys :
                       lamports'[a] = lamports[a]
                           + OwnFee(op) * Occurrences(validator_set.validators, a)
                           - (IF a = last'.user
                              THEN OwnFee(op) * Len(validator_set.validators)
                              ELSE 0)
                 /\ ZeroFeeNoTransfer
       /\ lamports' # lamports =>
             (last'.op \in AllMintOps /\ last'.err = "ok")]_vars

\* C19 witness: U1 minted on all three paths; 15 fees left U1 and each of the
\* five validators holds three.
FeeDistribution_Witness ==
    /\ last.op \in AllMintOps
    /\ last.err = "ok"
    /\ last.user = "U1"
    /\ lamports["U1"] = UserInitialLamports
                           - 3 * FEE_PER_VALIDATOR * Len(InitialValidators)
    /\ lamports["U2"] = UserInitialLamports
    /\ \A i \in 1..Len(InitialValidators) :
          lamports[InitialValidators[i]] = 3 * FEE_PER_VALIDATOR
    /\ lamports["X"] = 0

FeeTargetErrors ==
    {"MissingValidatorAccount", "InvalidValidatorAccount",
     "ValidatorAccountNotWritable"}

\* The error the fee targets of a call deserve: that of the first validator
\* index whose target is missing, has another key, or is not writable.
RECURSIVE FeeTargetError(_, _, _)
FeeTargetError(validators, remaining_accounts, i) ==
    IF i > Len(validators) THEN "ok"
    ELSE IF i > Len(remaining_accounts) THEN "MissingValidatorAccount"
    ELSE IF remaining_accounts[i].key # validators[i]
        THEN "InvalidValidatorAccount"
    ELSE IF ~remaining_accounts[i].is_writable
        THEN "ValidatorAccountNotWritable"
    ELSE FeeTargetError(validators, remaining_accounts, i + 1)

\* The mint call (op, user, asset_id, burn_nonce, token_owner) would succeed
\* with the right fee targets, in the state before the call.
MintOtherwiseValid(op, user, asset_id, burn_nonce, token_owner) ==
    IF op = "mint_from_burn"
        THEN MintV2Error(user, burn_nonce, token_owner,
                         FeeTargets(validator_set.validators)) = "ok"
        ELSE /\ asset_id \in AssetIds
             /\ MintResult(op, <<asset_id, user, burn_nonce>>, token_owner,
                           FeeTargets(validator_set.validators)) = "ok"

\* C20 (SpecMint): a mint call that would succeed with the right fee targets
\* but is given a list in which some target is missing, has a key other than
\* the validator's at its index, or is not writable, fails with the error of
\* the first such index; and every mint given such a list fails and leaves
\* the token balances, every lamport balance, the verified and processed
\* records, the counters and the events as they were.
FeeTargetFailureAborts ==
    [][\A op \in AllMintOps :
          last'.op = op =>
              /\ (/\ MintOtherwiseValid(op, last'.user, last'.asset_id,
                         last'.burn_nonce, request'.token_owner)
                  /\ FeeTargetError(validator_set.validators,
                         request'.remaining_accounts, 1) # "ok") =>
                    last'.err = FeeTargetError(validator_set.validators,
                                    request'.remaining_accounts, 1)
              /\ (\/ last'.err \in FeeTargetErrors
                  \/ FeeTargetError(validator_set.validators,
                         request'.remaining_accounts, 1) # "ok") =>
                    /\ last'.err # "ok"
                    /\ ledger' = ledger
                    /\ validator_set' = validator_set]_vars

\* C20 witness: a verified burn's mint was refused for its last fee target,
\* after the four targets before it had passed; nobody was paid and the
\* burn is still unminted.
FeeTargetFailureAborts_Witness ==
    /\ last.op \in MintOps
    /\ last.err = "InvalidValidatorAccount"
    /\ Len(request.remaining_accounts) = Len(validator_set.validators)
    /\ verified_v3[LastKey].exists
    /\ ~verified_v3[LastKey].processed
    /\ mints_v3[LastKey] = 0
    /\ \A a \in ValidatorKeys : lamports[a] = 0
    /\ \A u \in Users : lamports[u] = UserInitialLamports /\ token_x[u] = 0
                           /\ token_d[u] = 0

\* ------------------------------------------------ claims on every operation
AllOps == AllMintOps \cup SubmitOps \cup {"update_validator_set"}

\* C21 (SpecPin): every update_validator_set, submit_burn_attestation,
\* submit_burn_attestation_v3, mint_from_burn and mint_from_burn_v3 call that
\* ends with an error leaves the ValidatorSet, both MintStates, every
\* VerifiedBurn and ProcessedBurn record, every token balance, every lamport
\* balance and the emitted events exactly as they were.
FailureAtomicity ==
    [][(last'.op \in AllOps /\ last'.err # "ok") =>
          /\ validator_set' = validator_set
          /\ ledger' = ledger]_vars

\* C21 witness: after a mint of the other controller succeeded, a mint was
\* refused at the fee step, where tokens and records had been written.
FailureAtomicity_Witness ==
    /\ last.op = "mint_from_burn"
    /\ last.err = "ValidatorAccountNotWritable"
    /\ verified_v2[<<last.user, last.burn_nonce>>].exists
    /\ ~verified_v2[<<last.user, last.burn_nonce>>].processed
    /\ ~processed_v2[last.burn_nonce].exists
    /\ token_x[last.user] = 0
    /\ \E u \in Users : token_d[u] > 0

\* Whatever record the verified_burn account held, the account constraints
\* pass only a record whose user, burn_nonce and asset_id are the call's.
RecordMismatchRefused ==
    \A k \in V3Keys, user \in Users, burn_nonce \in Nonces \cup {8},
       asset_id \in AssetIds :
        (/\ verified_v3[k].exists
         /\ VerifiedBurnV3Constraints(verified_v3[k], user, burn_nonce,
                                      asset_id, "ProofAlreadyProcessed") = "ok")
            => /\ verified_v3[k].user = user
               /\ verified_v3[k].burn_nonce = burn_nonce
               /\ verified_v3[k].asset_id = asset_id
               /\ ~verified_v3[k].processed

\* C22 (Spec): a successful mint_from_burn_v3 was called by the user of the
\* VerifiedBurnV3 record it used, with the record's burn_nonce and asset_id,
\* and minted into a token account of that user; a call whose token account
\* belongs to somebody else fails and changes nothing; and no call changes
\* the record or the token balance of a user other than its caller.
OnlyVerifiedUserMints ==
    [][\A op \in MintOps, k \in V3Keys :
          (last'.op = op /\ LastKey' = k) =>
              /\ last'.err = "ok" =>
                    /\ verified_v3[k].exists
                    /\ verified_v3[k].user = last'.user
                    /\ verified_v3[k].burn_nonce = last'.burn_nonce
                    /\ verified_v3[k].asset_id = last'.asset_id
                    /\ request'.token_owner = verified_v3[k].user
                    /\ OwnTokens(op)'[verified_v3[k].user]
                          = OwnTokens(op)[verified_v3[k].user]
                               + verified_v3[k].amount
              /\ request'.token_owner # last'.user =>
                    /\ last'.err # "ok"
                    /\ ledger' = ledger
              /\ \A j \in V3Keys :
                    j[2] # last'.user => verified_v3'[j] = verified_v3[j]
              /\ \A u \in Users :
                    u # last'.user =>
                        token_x'[u] = token_x[u] /\ token_d'[u] = token_d[u]
              /\ RecordMismatchRefused]_vars

\* C22 witness: U2, whose own burn is not verified, just tried to mint
\* while U1's verified burn of the same asset and nonce is still unminted;
\* the call found no record.
OnlyVerifiedUserMints_Witness ==
    /\ last.op = "dgn_mint_from_burn_v3"
    /\ last.user = "U2"
    /\ last.asset_id = ASSET_DGN
    /\ last.err = "AccountNotInitialized"
    /\ verified_v3[<<ASSET_DGN, "U1", last.burn_nonce>>].exists
    /\ verified_v3[<<ASSET_DGN, "U1", last.burn_nonce>>].user = "U1"
    /\ ~verified_v3[<<ASSET_DGN, "U1", last.burn_nonce>>].processed
    /\ token_d["U1"] = 0
    /\ token_d["U2"] = 0

\* ---------------------------------------------------- claims on the counters
Min(a, b) == IF a < b THEN a ELSE b

\* A counter at or next to its maximum changes the result of no mint, and
\* adding to it stops at the maximum.
FullCountersNeverBlock ==
    /\ \A c \in {U64_MAX - 1, U64_MAX} :
          /\ saturating_add(c, 1) = U64_MAX
          /\ \A op \in MintOps, k \in V3Keys :
                MintV3Error(OwnAsset(op),
                    [OwnMintState(op) EXCEPT !.processed_burns_count = c,
                                             !.total_minted = c],
                    OwnProcessed(op), OwnReplayError(op), k[2], k[3], k[1],
                    k[2], FeeTargets(validator_set.validators))
                  = MintResult(op, k, k[2], FeeTargets(validator_set.validators))
    /\ UpdatedMintState(
          [mint_state_x EXCEPT !.processed_burns_count = U64_MAX,
                               !.total_minted = U64_MAX - 1], 1)
         = [mint_state_x EXCEPT !.processed_burns_count = U64_MAX,
                                !.total_minted = U64_MAX]

VerifiedAmount(op, user, asset_id, burn_nonce) ==
    IF op = "mint_from_burn" THEN verified_v2[<<user, burn_nonce>>].amount
    ELSE verified_v3[<<asset_id, user, burn_nonce>>].amount

\* C24 (SpecMint): every successful mint_from_burn_v3 and mint_from_burn
\* appends exactly one event carrying the call's nonce and user and the
\* verified amount, and a failed mint appends none.
MintEvents ==
    [][\A op \in AllMintOps, user \in Users, asset_id \in AssetIds \cup {0},
         burn_nonce \in Nonces :
          (/\ last'.op = op
           /\ last'.user = user
           /\ last'.asset_id = asset_id
           /\ last'.burn_nonce = burn_nonce) =>
              IF last'.err = "ok"
              THEN /\ Len(events') = Len(events) + 1
                   /\ SubSeq(events', 1, Len(events)) = events
                   /\ events'[Len(events')].nonce = burn_nonce
                   /\ events'[Len(events')].user = user
                   /\ events'[Len(events')].amount
                         = VerifiedAmount(op, user, asset_id, burn_nonce)
              ELSE events' = events]_vars

\* -------------------------------------------- claims on request validation
\* C25 (SpecAttest): every submit_burn_attestation_v3 call whose attestations
\* list is empty fails and creates no VerifiedBurnV3 record, whatever the
\* ValidatorSet is.
EmptyBatchRejected ==
    [][(/\ last'.op = "submit_burn_attestation_v3"
        /\ Len(request'.attestation.attestations) = 0) =>
          /\ last'.err # "ok"
          /\ verified_v3' = verified_v3]_vars

\* C26 (SpecRotate): an update_validator_set call with new_threshold = 0 or
\* new_threshold > len(new_validators) fails with InvalidThreshold, and one
\* with empty new_validators fails, whatever approvals it carries; in both
\* cases the ValidatorSet is unchanged.
RotationParameterValidation ==
    [][last'.op = "update_validator_set" =>
          /\ (\/ request'.params.new_threshold = 0
              \/ request'.params.new_threshold
                    > Len(request'.params.new_validators)) =>
                /\ last'.err = "InvalidThreshold"
                /\ validator_set' = validator_set
          /\ Len(request'.params.new_validators) = 0 =>
                /\ last'.err # "ok"
                /\ validator_set' = validator_set]_vars

\* C26 witness: two members of the current set, enough for its threshold,
\* approved a roster of two with threshold 3, and the call was refused.
RotationParameterValidation_Witness ==
    /\ last.op = "update_validator_set"
    /\ last.err = "InvalidThreshold"
    /\ validator_set.threshold = 2
    /\ Len(request.params.new_validators) = 2
    /\ request.params.new_threshold = 3
    /\ Len(request.params.approver_signatures) = 2
    /\ verify_update_signatures(request.params, validator_set.validators,
                                validator_set.threshold, validator_set.version)
          = "ok"

\* C27 (SpecOverflow): with ValidatorSet.version = U64_MAX every
\* update_validator_set call fails and leaves version, validators and
\* threshold unchanged, and one whose parameters and approvals are valid
\* fails with ArithmeticOverflow; the version never decreases and never
\* exceeds U64_MAX.
VersionOverflowFailsClosed ==
    [][/\ (last'.op = "update_validator_set"
             /\ validator_set.version = U64_MAX) =>
             /\ last'.err # "ok"
             /\ validator_set' = validator_set
             /\ (/\ RotationParamsPass
                 /\ verify_update_signatures(request'.params,
                        validator_set.validators, validator_set.threshold,
                        validator_set.version) = "ok")
                  <=> last'.err = "ArithmeticOverflow"
       /\ validator_set'.version >= validator_set.version
       /\ validator_set'.version <= U64_MAX]_vars

\* C27 witness: at the last version a rotation approved by the installed
\* validator X was refused for the overflow.
VersionOverflowFailsClosed_Witness ==
    /\ last.op = "update_validator_set"
    /\ last.err = "ArithmeticOverflow"
    /\ validator_set = [version |-> U64_MAX, validators |-> <<"X">>,
                        threshold |-> 1]
    /\ request.params.new_validators = <<"V1", "X">>

\* C28 (SpecRotate): every approval of a successful update_validator_set is a
\* valid signature of its approver over
\* hash("VALIDATOR_UPDATE" || current_version || new_validators || new_threshold),
\* with the version the ValidatorSet had before the call.
ApprovalsBoundToVersion ==
    [][(last'.op = "update_validator_set" /\ last'.err = "ok") =>
          \A i \in 1..Len(request'.params.approver_signatures) :
              Ed25519Valid(
                  request'.params.approver_signatures[i].validator_pubkey,
                  create_update_message(validator_set.version,
                      request'.params.new_validators,
                      request'.params.new_threshold),
                  request'.params.approver_signatures[i].signature)]_vars

\* ----------------------------------------------------- claims on messages
\* C29 (SpecMessage): create_attestation_message_v3 gives two inputs the same
\* message exactly when the inputs are equal in asset_id, burn_nonce, user,
\* amount and validator_set_version, so the messages of asset_id 1 and 2
\* differ when the other fields agree; create_vote_message gives two inputs
\* the same message exactly when they are equal in block_hash and slot.  The
\* field tuple used for the message elsewhere in the model is equal for two
\* inputs exactly when the hashed bytes are.
MessageInjective ==
    (request.kind = "messages") =>
        /\ (request.out_a = request.out_b) <=> (request.a = request.b)
        /\ last.op = "create_attestation_message_v3" =>
              (create_attestation_message_v3(request.a.asset_id,
                   request.a.burn_nonce, request.a.user, request.a.amount,
                   request.a.validator_set_version)
                 = create_attestation_message_v3(request.b.asset_id,
                       request.b.burn_nonce, request.b.user, request.b.amount,
                       request.b.validator_set_version))
                <=> (request.out_a = request.out_b)

\* C29 witness: two inputs that differ in asset_id only, 1 against 2, got
\* different messages.
MessageInjective_Witness ==
    /\ last.op = "create_attestation_message_v3"
    /\ request.a.asset_id = ASSET_XENCAT
    /\ request.b = [request.a EXCEPT !.asset_id = ASSET_DGN]
    /\ request.a.amount = 256
    /\ request.out_a # request.out_b

\* ---------------------------------------------------- claims on the stake
\* ceil(2 * t / 3), for 2 * t within the integers.
CeilTwoThirds(t) ==
    (2 * t) \div 3 + (IF (2 * t) % 3 = 0 THEN 0 ELSE 1)

\* C30 (SpecThreshold): for every total_stake with 2 * total_stake + 2 <=
\* U64_MAX, consensus_threshold returns ceil(2 * total_stake / 3), and for
\* every larger total_stake it returns ArithmeticOverflow.
ConsensusThresholdRoundsUp ==
    (request.kind = "stake") =>
        IF request.total_stake <= (U64_MAX - 2) \div 2
        THEN /\ request.result.err = "ok"
             /\ request.result.value = CeilTwoThirds(request.total_stake)
        ELSE request.result.err = "ArithmeticOverflow"

\* C30 witness: the threshold of 1000 was computed as 667.
ConsensusThresholdRoundsUp_Witness ==
    /\ last.op = "consensus_threshold"
    /\ request.total_stake = 1000
    /\ request.result = [err |-> "ok", value |-> 667]

\* ======================================================================
\* The native-signature verifier with Merkle inclusion (verification.rs,
\* verification_new.rs, submit_proof.rs)

\* Digests are numbers below HashModulus, compared as the byte arrays are.
HashModulus == 251

\* basis points of the tracked stake a proof's signers must hold
MIN_STAKE_BASIS_POINTS == 900

\* keccak::hash: a fixed mixing of the bytes hashed, sensitive to their
\* order; equal inputs have equal digests.
RECURSIVE keccak_fold(_, _, _)
keccak_fold(data, i, acc) ==
    IF i > Len(data) THEN acc
    ELSE LET mixed == (acc * 31 + data[i] + 1) % HashModulus
         IN  IF mixed >= 0 THEN keccak_fold(data, i + 1, mixed) ELSE mixed

keccak_hash(data) == keccak_fold(data, 1, 7)

\* The borsh bytes of a BurnRecord: user, amount, nonce, timestamp,
\* record_hash, bump.
BurnRecord_bytes(record) ==
    Pubkey_to_bytes(record.user) \o to_le_bytes(record.amount, 8)
        \o to_le_bytes(record.nonce, 8) \o to_le_bytes(record.timestamp, 8)
        \o [i \in 1..32 |-> record.record_hash] \o <<record.bump>>

\* u64::from_le_bytes
RECURSIVE from_le_bytes(_)
from_le_bytes(bytes) ==
    IF bytes = <<>> THEN 0
    ELSE bytes[1] + 256 * from_le_bytes(Tail(bytes))

\* BurnRecord::try_from_slice: the slice must hold exactly the 89 bytes of
\* a record; the fields are read in declaration order.
BurnRecord_try_from_slice(data) ==
    IF Len(data) # 89 THEN [ok |-> FALSE]
    ELSE [ok |-> TRUE,
          user |-> SubSeq(data, 1, 32),
          amount |-> from_le_bytes(SubSeq(data, 33, 40)),
          nonce |-> from_le_bytes(SubSeq(data, 41, 48))]

\* verify_burn_record_data
verify_burn_record_data(proof) ==
    LET burn_record == BurnRecord_try_from_slice(proof.burn_record_data)
    IN  IF ~burn_record.ok THEN "BurnRecordDeserializationFailed"
        ELSE IF burn_record.user # Pubkey_to_bytes(proof.user)
            THEN "BurnRecordMismatch"
        ELSE IF burn_record.amount # proof.amount THEN "BurnRecordMismatch"
        ELSE IF burn_record.nonce # proof.burn_nonce THEN "BurnRecordMismatch"
        ELSE "ok"

\* Mutant of MerkleRoot: the pair is hashed as presented, current hash first.
RECURSIVE MerkleRoot_unsorted(_, _, _)
MerkleRoot_unsorted(current_hash, merkle_proof, i) ==
    IF i > Len(merkle_proof) THEN current_hash
    ELSE LET parent == keccak_hash(<<current_hash, merkle_proof[i]>>)
         IN  IF parent >= 0 THEN MerkleRoot_unsorted(parent, merkle_proof, i + 1)
             ELSE parent

\* The walk of verify_merkle_proof_internal from level i upwards: at each
\* level the smaller of the current hash and the sibling is hashed first.
RECURSIVE MerkleRoot(_, _, _)
MerkleRoot(current_hash, merkle_proof, i) ==
    IF i > Len(merkle_proof) THEN current_hash
    ELSE LET sibling == merkle_proof[i]
             left == IF current_hash <= sibling THEN current_hash ELSE sibling
             right == IF current_hash <= sibling THEN sibling ELSE current_hash
             parent == keccak_hash(<<left, right>>)
         IN  IF parent >= 0 THEN MerkleRoot(parent, merkle_proof, i + 1)
             ELSE parent

\* verify_merkle_proof_internal
verify_merkle_proof_internal(proof) ==
    LET leaf_hash == keccak_hash(proof.burn_record_data)
    IN  IF ~(Len(proof.merkle_proof) <= 32) THEN "InvalidMerkleProof"
        ELSE IF MerkleRoot(leaf_hash, proof.merkle_proof, 1) # proof.state_root
            THEN "InvalidMerkleProof"
        ELSE verify_burn_record_data(proof)

\* ------------- SpecMerkle: verify_merkle_proof_internal on bounded proofs
MaxMerkleLen == 2

\* The burn records of the two users, as the burn program stores them.
BurnRecordOf(user) ==
    [user |-> user, amount |-> ClaimedAmount(user), nonce |-> 7,
     timestamp |-> 0, record_hash |-> 0, bump |-> 255]

\* Leaf data: the two burn records and bytes that are no record.
LeafData == {BurnRecord_bytes(BurnRecordOf(u)) : u \in Users} \cup {<<1, 2, 3>>}

\* Sibling digests: the leaf hashes and the two extreme digests.
Siblings == {keccak_hash(d) : d \in LeafData} \cup {0, HashModulus - 1}

\* Proofs of up to MaxMerkleLen levels, and one of 33 levels.
MerkleProofs ==
    SeqsUpTo(Siblings, MaxMerkleLen) \cup {[i \in 1..33 |-> 0]}

ApplyVerifyMerkleProof ==
    /\ last = Idle
    /\ \E data \in LeafData, merkle_proof \in MerkleProofs, user \in Users,
          given_root \in Siblings \cup {-1} :
          LET root == MerkleRoot(keccak_hash(data), merkle_proof, 1)
              proof == [amount |-> ClaimedAmount(user), burn_nonce |-> 7,
                        burn_record_data |-> data,
                        merkle_proof |-> merkle_proof,
                        state_root |-> IF given_root = -1 THEN root
                                       ELSE given_root,
                        user |-> user]
          IN  /\ request' = [kind |-> "merkle", proof |-> proof,
                             result |-> verify_merkle_proof_internal(proof),
                             root |-> root]
              /\ last' = [Idle EXCEPT !.op = "verify_merkle_proof_internal",
                                      !.user = user, !.burn_nonce = 7]
    /\ UNCHANGED <<validator_set, ledger>>

NextMerkle == ApplyVerifyMerkleProof \/ Observed

SpecMerkle == Init /\ [][NextMerkle]_vars

\* ------------------------------------------------------- submit_proof
\* The ValidatorConfig account as initialize_validator_config writes it:
\* three primary and four fallback validators, and the sum of their stakes.
ValidatorConfigAccount ==
    [primary_validators |->
         <<[identity |-> "P1", stake |-> 500],
           [identity |-> "P2", stake |-> 300],
           [identity |-> "P3", stake |-> 100]>>,
     fallback_validators |->
         <<[identity |-> "F1", stake |-> 40],
           [identity |-> "F2", stake |-> 30],
           [identity |-> "F3", stake |-> 20],
           [identity |-> "F4", stake |-> 10]>>,
     total_tracked_stake |-> 1000]

\* ValidatorConfig::find_validator: the first entry of primary then
\* fallback validators with the identity.
find_validator(config, identity) ==
    LET all == config.primary_validators \o config.fallback_validators
        found == {i \in 1..Len(all) : all[i].identity = identity}
    IN  IF found = {} THEN [some |-> FALSE, stake |-> 0]
        ELSE [some |-> TRUE,
              stake |-> all[CHOOSE i \in found : \A j \in found : i <= j].stake]

\* The loop of ValidatorConfig::verify_stake_threshold: the stake of every
\* identity found in the config is added, in order.
RECURSIVE StakeOf(_, _, _, _)
StakeOf(config, identities, i, verified_stake) ==
    IF i > Len(identities) THEN [err |-> "ok", value |-> verified_stake]
    ELSE LET validator == find_validator(config, identities[i])
             sum == checked_add(verified_stake, validator.stake)
         IN  IF ~validator.some
                 THEN StakeOf(config, identities, i + 1, verified_stake)
             ELSE IF ~sum.some THEN [err |-> "ArithmeticOverflow", value |-> 0]
             ELSE StakeOf(config, identities, i + 1, sum.value)

\* ValidatorConfig::verify_stake_threshold
verify_stake_threshold(config, validator_identities, total_stake) ==
    LET verified == StakeOf(config, validator_identities, 1, 0)
        threshold == (total_stake * MIN_STAKE_BASIS_POINTS) \div 10000
    IN  [err |-> verified.err, verified_stake |-> verified.value,
         reached |-> verified.value >= threshold]

\* load_ed25519_instruction: the instruction at ix_index of the transaction,
\* whose Ed25519Program instructions precede the instruction running; the
\* Ed25519Program has accepted the signature of each of them.
load_ed25519_instruction(ix_index, instructions) ==
    IF ix_index > Len(instructions)
        THEN [err |-> "InvalidArgument", pubkey |-> "none", message |-> <<>>]
    ELSE IF ix_index = Len(instructions)
        THEN [err |-> "InvalidEd25519Instruction", pubkey |-> "none",
              message |-> <<>>]
    ELSE [err |-> "ok", pubkey |-> instructions[ix_index + 1].pubkey,
          message |-> instructions[ix_index + 1].message]

\* The loop of verify_burn_proof_minimal over validator_count instructions.
RECURSIVE ExtractLoop(_, _, _, _, _, _)
ExtractLoop(proof, config, instructions, i, total_stake, identities) ==
    IF i >= proof.validator_count
        THEN [err |-> "ok", total_stake |-> total_stake,
              identities |-> identities]
    ELSE LET ix == load_ed25519_instruction(i, instructions)
             expected_message == create_vote_message(proof.block_hash, proof.slot)
             validator_info == find_validator(config, ix.pubkey)
             sum == checked_add(total_stake, validator_info.stake)
             failed(e) == [err |-> e, total_stake |-> 0, identities |-> <<>>]
         IN  IF ix.err # "ok" THEN failed(ix.err)
             ELSE IF ix.message # expected_message
                 THEN failed("InvalidVoteMessage")
             ELSE IF ~validator_info.some THEN failed("UnknownValidator")
             ELSE IF ~sum.some THEN failed("StakeOverflow")
             ELSE ExtractLoop(proof, config, instructions, i + 1, sum.value,
                              Append(identities, ix.pubkey))

\* verify_merkle_proof_minimal
verify_merkle_proof_minimal(proof) ==
    IF ~(Len(proof.merkle_proof) <= 10) THEN "InvalidMerkleProof" ELSE "ok"

\* Mutant of verify_burn_proof_minimal: the finality window is 31 slots.
verify_burn_proof_minimal_early(proof, config, instructions, current_slot) ==
    LET extracted == ExtractLoop(proof, config, instructions, 0, 0, <<>>)
        stake == verify_stake_threshold(config, extracted.identities,
                                        config.total_tracked_stake)
    IN  IF ~(proof.validator_count >= 3) THEN "InsufficientValidators"
        ELSE IF ~(proof.validator_count <= 20) THEN "TooManyValidators"
        ELSE IF ~(proof.slot < current_slot) THEN "InvalidSlot"
        ELSE IF ~(current_slot - proof.slot >= 31) THEN "InsufficientFinality"
        ELSE IF extracted.err # "ok" THEN extracted.err
        ELSE IF stake.err # "ok" THEN stake.err
        ELSE IF ~stake.reached THEN "InsufficientStake"
        ELSE verify_merkle_proof_minimal(proof)

\* verify_burn_proof_minimal: the error of the first check that fails.
verify_burn_proof_minimal(proof, config, instructions, current_slot) ==
    LET extracted == ExtractLoop(proof, config, instructions, 0, 0, <<>>)
        stake == verify_stake_threshold(config, extracted.identities,
                                        config.total_tracked_stake)
        slots_since == IF current_slot >= proof.slot
                       THEN current_slot - proof.slot ELSE 0
    IN  IF ~(proof.validator_count >= 3) THEN "InsufficientValidators"
        ELSE IF ~(proof.validator_count <= 20) THEN "TooManyValidators"
        ELSE IF ~(proof.slot < current_slot) THEN "InvalidSlot"
        ELSE IF ~(slots_since >= 32) THEN "InsufficientFinality"
        ELSE IF extracted.err # "ok" THEN extracted.err
        ELSE IF stake.err # "ok" THEN stake.err
        ELSE IF ~stake.reached THEN "InsufficientStake"
        ELSE verify_merkle_proof_minimal(proof)

\* The accounts of SubmitProof, then the handler's verification.
SubmitProofError(user, proof, instructions, current_slot) ==
    IF InitFails(verified_v2[<<user, proof.burn_nonce>>])
        THEN "AccountAlreadyInUse"
    ELSE verify_burn_proof_minimal(proof, ValidatorConfigAccount,
                                   instructions, current_slot)

StoredVerifiedProof(user, proof) ==
    [exists |-> TRUE,
     burn_nonce |-> proof.burn_nonce,
     user |-> user,
     amount |-> proof.amount,
     processed |-> FALSE]

\* submit_proof.  Its VerifiedBurn records live under the seed "verified_burn",
\* apart from the "verified_burn_v2" records of submit_burn_attestation; they
\* are held in verified_v2 because no specification runs both instructions.
SubmitProof(user, proof, instructions, current_slot) ==
    LET err == SubmitProofError(user, proof, instructions, current_slot)
        key == <<user, proof.burn_nonce>>
    IN  /\ last' = [op |-> "submit_proof", err |-> err, user |-> user,
                    asset_id |-> 0, burn_nonce |-> proof.burn_nonce]
        /\ request' = [current_slot |-> current_slot,
                       instructions |-> instructions, kind |-> "proof",
                       proof |-> proof]
        /\ verified_v2' =
              IF err = "ok"
              THEN [verified_v2 EXCEPT ![key] = StoredVerifiedProof(user, proof)]
              ELSE verified_v2
        /\ UNCHANGED <<exit_persists, validator_set, verified_v3, processed_x3, processed_d3,
                       processed_v2, mint_state_x, mint_state_d, token_x,
                       token_d, lamports, events, mints_v3, mints_v2,
                       submits_v3>>

\* ------------- SpecProof: submit_proof on arbitrary proofs
\* The slot of the cluster clock, and proof slots 32 and 31 slots before
\* it, at it and after it.
ClockSlots == {100}
ProofSlots == {68, 69, 100, 101}

\* Signers of the co-located Ed25519Program instructions: a primary and
\* two fallback validators, and a key outside the config.
ProofSigners == {"P1", "F1", "F4", "X"}

\* Two or three Ed25519Program instructions precede submit_proof.
SignatureIxLists == [1..2 -> ProofSigners] \cup [1..3 -> ProofSigners]

ValidatorCounts == {2, 3, 4, 21}

\* Merkle proofs of 1, 10 and 11 levels.
MinimalMerkleProofs == {[i \in 1..n |-> 0] : n \in {1, 10, 11}}

\* The leaf of the proof's burn record and the root its siblings lead to.
BurnRecordLeaf(proof) ==
    keccak_hash(BurnRecord_bytes(
        [user |-> proof.user, amount |-> proof.amount,
         nonce |-> proof.burn_nonce, timestamp |-> 0, record_hash |-> 0,
         bump |-> 255]))

RecomputedRoot(proof) == MerkleRoot(BurnRecordLeaf(proof), proof.merkle_proof, 1)

\* The proofs of a user's burn, without the state root.
UnrootedProof(user, slot, validator_count, merkle_proof) ==
    [amount |-> ClaimedAmount(user), block_hash |-> [j \in 1..32 |-> 1],
     burn_nonce |-> 7, merkle_proof |-> merkle_proof, slot |-> slot,
     state_root |-> 0, user |-> user, validator_count |-> validator_count]

\* The state roots of the source chain, by user and Merkle proof.
StateRoots ==
    [user \in Users |-> [merkle_proof \in MinimalMerkleProofs |->
        RecomputedRoot(UnrootedProof(user, 0, 0, merkle_proof))]]

\* The instructions sign the proof's vote message, or the first of them
\* the vote message of another block.
SignatureIxs(keys, first_wrong, block_hash, slot) ==
    [i \in 1..Len(keys) |->
        [message |-> IF first_wrong /\ i = 1
                     THEN create_vote_message([j \in 1..32 |-> 0], slot)
                     ELSE create_vote_message(block_hash, slot),
         pubkey |-> keys[i]]]

AnySubmitProof ==
    /\ last = Idle
    /\ \E user \in Users, slot \in ProofSlots, current_slot \in ClockSlots,
          validator_count \in ValidatorCounts,
          merkle_proof \in MinimalMerkleProofs, root_matches \in BOOLEAN,
          keys \in SignatureIxLists, first_wrong \in BOOLEAN :
          LET unrooted == UnrootedProof(user, slot, validator_count, merkle_proof)
              root == StateRoots[user][merkle_proof]
              proof == [unrooted EXCEPT !.state_root =
                           IF root_matches THEN root
                           ELSE (root + 1) % HashModulus]
          IN  SubmitProof(user, proof,
                          SignatureIxs(keys, first_wrong, proof.block_hash, slot),
                          current_slot)

NextProof == AnySubmitProof \/ Observed

\* The light client with the initial roster and no burn submitted.
InitProof == validator_set = InitValidatorSet(2) /\ InitLedger

SpecProof == InitProof /\ [][NextProof]_vars

\* ======================================================================
\* Claims on the native-signature verifier

\* The result of verify_burn_proof_minimal on the arguments of the last
\* submit_proof.
MinimalProofResult ==
    verify_burn_proof_minimal(request.proof, ValidatorConfigAccount,
                              request.instructions, request.current_slot)

\* C31 (SpecProof): submit_proof accepts a proof only if it has at most 32
\* Merkle levels and the root recomputed from the burn-record leaf and the
\* proof siblings equals the claimed state_root; a proof whose recomputed
\* root differs from state_root is rejected and creates no VerifiedBurn
\* record.
MerkleInclusionEnforced ==
    [][last'.op = "submit_proof" =>
          /\ last'.err = "ok" =>
                /\ Len(request'.proof.merkle_proof) <= 32
                /\ RecomputedRoot(request'.proof) = request'.proof.state_root
          /\ RecomputedRoot(request'.proof) # request'.proof.state_root =>
                /\ last'.err # "ok"
                /\ verified_v2' = verified_v2]_vars

\* The signers of the validator_count instructions a proof makes the
\* verifier inspect.
InspectedSigners(req) ==
    [i \in 1..Min(req.proof.validator_count, Len(req.instructions)) |->
        req.instructions[i].pubkey]

\* The stake of the distinct members of the config among the signers.
DistinctStake(signers) ==
    LET members == {signers[i] : i \in 1..Len(signers)}
        all == ValidatorConfigAccount.primary_validators
                   \o ValidatorConfigAccount.fallback_validators
        held == {i \in 1..Len(all) : all[i].identity \in members}
        sum[n \in 0..Len(all)] ==
            IF n = 0 THEN 0
            ELSE sum[n - 1] + (IF n \in held THEN all[n].stake ELSE 0)
    IN  sum[Len(all)]

\* C32 (SpecProof): a proof in which a signer key appears in more than one
\* of the validator_count inspected signature instructions is rejected, so
\* the stake of the distinct config members among the signers of an
\* accepted proof reaches the threshold.
SignerStakeCountsOnce ==
    (last.op = "submit_proof" /\ last.err = "ok") =>
        /\ ~HasDuplicate(InspectedSigners(request))
        /\ DistinctStake(InspectedSigners(request)) >=
               (ValidatorConfigAccount.total_tracked_stake
                    * MIN_STAKE_BASIS_POINTS) \div 10000

\* C33 as stated (SpecProof): verify_burn_proof_minimal fails with
\* InvalidSlot whenever proof.slot >= current_slot, with
\* InsufficientFinality whenever current_slot - proof.slot < 32, and with
\* neither exactly when current_slot - proof.slot >= 32.
FinalityWindow_AsStated ==
    last.op = "submit_proof" =>
        /\ request.proof.slot >= request.current_slot =>
              MinimalProofResult = "InvalidSlot"
        /\ (request.proof.slot < request.current_slot
            /\ request.current_slot - request.proof.slot < 32) =>
              MinimalProofResult = "InsufficientFinality"
        /\ (request.proof.slot < request.current_slot
            /\ request.current_slot - request.proof.slot >= 32) =>
              MinimalProofResult \notin {"InvalidSlot", "InsufficientFinality"}

\* C33 (SpecProof): for a proof whose validator_count is between 3 and 20,
\* verify_burn_proof_minimal fails with InvalidSlot when
\* proof.slot >= current_slot, with InsufficientFinality when
\* current_slot - proof.slot < 32, and with neither when
\* current_slot - proof.slot >= 32; a proof with another validator_count
\* fails with InsufficientValidators or TooManyValidators whatever its
\* slot. submit_proof returns that result unless the VerifiedBurn account
\* exists already.
FinalityWindow ==
    last.op = "submit_proof" =>
        /\ last.err \in {MinimalProofResult, "AccountAlreadyInUse"}
        /\ request.proof.validator_count < 3 =>
              MinimalProofResult = "InsufficientValidators"
        /\ request.proof.validator_count > 20 =>
              MinimalProofResult = "TooManyValidators"
        /\ request.proof.validator_count \in 3..20 =>
              /\ request.proof.slot >= request.current_slot =>
                    MinimalProofResult = "InvalidSlot"
              /\ (request.proof.slot < request.current_slot
                  /\ request.current_slot - request.proof.slot < 32) =>
                    MinimalProofResult = "InsufficientFinality"
              /\ (request.proof.slot < request.current_slot
                  /\ request.current_slot - request.proof.slot >= 32) =>
                    MinimalProofResult \notin
                        {"InvalidSlot", "InsufficientFinality"}

\* A proof exactly 32 slots old, signed by three validators, is accepted.
FinalityWindow_Witness ==
    /\ last.op = "submit_proof"
    /\ last.err = "ok"
    /\ request.proof.validator_count = 3
    /\ request.current_slot - request.proof.slot = 32
    /\ verified_v2[<<last.user, 7>>].exists

Max(a, b) == IF a >= b THEN a ELSE b

\* The root over the siblings when every level hashes the smaller of the
\* two digests first.
SortedPairRoot(leaf_hash, merkle_proof) ==
    LET level[n \in 0..Len(merkle_proof)] ==
            IF n = 0 THEN leaf_hash
            ELSE keccak_hash(<<Min(level[n - 1], merkle_proof[n]),
                               Max(level[n - 1], merkle_proof[n])>>)
    IN  level[Len(merkle_proof)]

\* C34 (SpecMerkle): the root verify_merkle_proof_internal recomputes is,
\* level by level, hash(min(cur, sib) || max(cur, sib)); for a 2-leaf tree
\* with leaf hashes A and B it is hash(min(A, B) || max(A, B)) both when
\* the walk starts from A with sibling B and when it starts from B with
\* sibling A.
SortedPairHashing ==
    (last.op = "verify_merkle_proof_internal"
     /\ Len(request.proof.merkle_proof) <= 32) =>
        LET leaf_hash == keccak_hash(request.proof.burn_record_data)
            merkle_proof == request.proof.merkle_proof
        IN  /\ request.root = SortedPairRoot(leaf_hash, merkle_proof)
            /\ Len(merkle_proof) = 1 =>
                  /\ request.root =
                        keccak_hash(<<Min(leaf_hash, merkle_proof[1]),
                                      Max(leaf_hash, merkle_proof[1])>>)
                  /\ MerkleRoot(merkle_proof[1], <<leaf_hash>>, 1) = request.root
            /\ request.result = "InvalidMerkleProof" <=>
                  request.root # request.proof.state_root

\* The walk starts from the larger leaf hash B of a 2-leaf tree, with the
\* hash A of the other burn record as sibling, and the proof is accepted.
SortedPairHashing_Witness ==
    /\ last.op = "verify_merkle_proof_internal"
    /\ Len(request.proof.merkle_proof) = 1
    /\ request.proof.merkle_proof[1] \in
           {keccak_hash(BurnRecord_bytes(BurnRecordOf(u))) : u \in Users}
    /\ request.proof.merkle_proof[1] < keccak_hash(request.proof.burn_record_data)
    /\ request.root # keccak_hash(<<keccak_hash(request.proof.burn_record_data),
                                    request.proof.merkle_proof[1]>>)
    /\ request.result = "ok"

\* ======================================================================
\* Claims on the frame and the lifecycle of the ledger entities

\* C35 (SpecPin): submit_burn_attestation, submit_burn_attestation_v3,
\* mint_from_burn and mint_from_burn_v3 leave the version, the validators
\* and the threshold of the ValidatorSet unchanged whether they succeed or
\* fail, and the submit operations leave the MintState of both controllers
\* unchanged.
ValidatorSetFrame ==
    [][/\ last'.op \in AllMintOps \cup SubmitOps =>
             /\ validator_set'.version = validator_set.version
             /\ validator_set'.validators = validator_set.validators
             /\ validator_set'.threshold = validator_set.threshold
       /\ last'.op \in SubmitOps =>
             /\ mint_state_x' = mint_state_x
             /\ mint_state_d' = mint_state_d]_vars

\* After a mint and a rotation to version 2, a burn is submitted with
\* success: the roster is the rotated one and the counters are the mint's.
ValidatorSetFrame_Witness ==
    /\ last.op \in SubmitOps
    /\ last.err = "ok"
    /\ validator_set.version = 2
    /\ mint_state_x.processed_burns_count + mint_state_d.processed_burns_count >= 1

\* The ProcessedBurnV3 record of a key, in the controller that minted it.
ProcessedRecordOf(px, pd, k) ==
    LET pk == <<k[1], k[3], k[2]>>
    IN  IF px[pk].exists THEN px[pk] ELSE pd[pk]

\* C36 (Spec): in every reachable state the VerifiedBurnV3 record of a key
\* has processed = true if and only if a ProcessedBurnV3 record with the
\* same (asset_id, nonce, user) exists, and then both carry the same
\* amount; processed changes only from false to true, and once it is true
\* neither record changes or disappears.
RecordLifecycle ==
    [][\A k \in V3Keys :
          /\ verified_v3'[k].processed <=>
                 ProcessedRecordOf(processed_x3', processed_d3', k).exists
          /\ verified_v3'[k].processed =>
                 ProcessedRecordOf(processed_x3', processed_d3', k).amount
                     = verified_v3'[k].amount
          /\ verified_v3[k].processed =>
                 /\ verified_v3'[k] = verified_v3[k]
                 /\ processed_x3'[<<k[1], k[3], k[2]>>] = processed_x3[<<k[1], k[3], k[2]>>]
                 /\ processed_d3'[<<k[1], k[3], k[2]>>] = processed_d3[<<k[1], k[3], k[2]>>]
          /\ ProcessedRecordOf(processed_x3, processed_d3, k).exists =>
                 ProcessedRecordOf(processed_x3', processed_d3', k)
                     = ProcessedRecordOf(processed_x3, processed_d3, k)]_vars

\* C37 (SpecAttest): the user stored in the record a successful
\* submit_burn_attestation_v3 or submit_burn_attestation creates is the
\* user field of the attestation data, over which the canonical message
\* was computed.
RecordBoundToAttestedUser ==
    /\ (last.op = "submit_burn_attestation_v3" /\ last.err = "ok") =>
           verified_v3[LastKey].user = request.attestation.user
    /\ (last.op = "submit_burn_attestation" /\ last.err = "ok") =>
           verified_v2[<<last.user, last.burn_nonce>>].user
               = request.attestation.user

\* The distinct keys of a roster.
DistinctKeys(roster) == {roster[i] : i \in 1..Len(roster)}

\* C38 (SpecRotate): in every state reachable from initialize_validator_set
\* by successful rotations the roster holds at least threshold distinct
\* keys, so some approval set and some attestation batch can still be
\* accepted.
RosterMeetsThreshold ==
    Cardinality(DistinctKeys(validator_set.validators))
        >= validator_set.threshold

\* C39 (SpecMint): an unprocessed VerifiedBurn record that its user has not
\* minted yet can be minted by that user through mint_from_burn, with their
\* own token account and the right fee targets, whatever other users have
\* minted before.
V2RecordMintable ==
    [][\A u \in Users, n \in Nonces :
          (/\ last'.op = "mint_from_burn"
           /\ last'.user = u /\ last'.burn_nonce = n
           /\ request'.token_owner = u
           /\ request'.remaining_accounts
                  = FeeTargets(validator_set.validators)
           /\ verified_v2[<<u, n>>].exists
           /\ ~verified_v2[<<u, n>>].processed
           /\ mints_v2[<<u, n>>] = 0
           /\ validator_set.version = mint_state_x.validator_set_version
           /\ DistributeFees(mint_state_x,
                  FeeTargets(validator_set.validators), u).err = "ok")
          => last'.err = "ok"]_vars

\* ================================================= ValidatorSetHistory
HISTORY_SIZE == 100

\* A ValidatorSetUpdateRecord, by its epoch and slot; the other fields are
\* carried alongside them unread.
ValidatorSetUpdateRecord(update_epoch, slot) ==
    [update_epoch |-> update_epoch, slot |-> slot]

NoUpdateRecord == [some |-> FALSE, value |-> ValidatorSetUpdateRecord(0, 0)]

EmptyHistory == [updates |-> <<>>, current_index |-> 0, total_updates |-> 0]

\* ValidatorSetHistory::add_update
add_update(history, record) ==
    LET index == history.current_index
    IN  [updates |-> IF Len(history.updates) < HISTORY_SIZE
                     THEN Append(history.updates, record)
                     ELSE [history.updates EXCEPT ![index + 1] = record],
         current_index |-> ((index + 1) % HISTORY_SIZE) % 256,
         total_updates |-> saturating_add(history.total_updates, 1)]

\* Mutant of get_latest: the last element of updates is returned.
get_latest_tail(history) ==
    IF Len(history.updates) = 0 THEN NoUpdateRecord
    ELSE [some |-> TRUE, value |-> history.updates[Len(history.updates)]]

\* ValidatorSetHistory::get_latest; updates[i + 1] is the element at the
\* source's index i.
get_latest(history) ==
    IF Len(history.updates) = 0 THEN NoUpdateRecord
    ELSE LET latest_index == IF history.current_index = 0
                             THEN Len(history.updates) - 1
                             ELSE history.current_index - 1
         IN  IF latest_index < Len(history.updates)
             THEN [some |-> TRUE, value |-> history.updates[latest_index + 1]]
             ELSE NoUpdateRecord

\* ------------- SpecHistory: add_update calls on a history that starts empty
MaxCalls == 205
FirstEpochs == {1, 5}
UpdateSlots == {100, 101}

\* A history account is created empty; the records added to it carry
\* consecutive epochs from first_epoch on.
NewHistory ==
    /\ request = NoRequest
    /\ \E first_epoch \in FirstEpochs :
          request' = [kind |-> "history", history |-> EmptyHistory,
                      calls |-> 0, next_epoch |-> first_epoch,
                      added |-> NoUpdateRecord,
                      latest |-> get_latest(EmptyHistory)]
    /\ last' = [Idle EXCEPT !.op = "new_history"]
    /\ UNCHANGED <<validator_set, ledger>>

\* One add_update call followed by get_latest.  The slot is free in the
\* first two calls and in the two calls that fill the buffer.
ApplyAddUpdate ==
    /\ request.kind = "history"
    /\ request.calls < MaxCalls
    /\ \E slot \in UpdateSlots :
          /\ (request.calls \in {0, 1, HISTORY_SIZE - 1, HISTORY_SIZE}
                 \/ slot = 100)
          /\ LET record == ValidatorSetUpdateRecord(request.next_epoch, slot)
                 history == add_update(request.history, record)
             IN  request' = [kind |-> "history", history |-> history,
                             calls |-> request.calls + 1,
                             next_epoch |-> request.next_epoch + 1,
                             added |-> [some |-> TRUE, value |-> record],
                             latest |-> get_latest(history)]
    /\ last' = [Idle EXCEPT !.op = "add_update"]
    /\ UNCHANGED <<validator_set, ledger>>

NextHistory == NewHistory \/ ApplyAddUpdate

InitHistory == validator_set = InitValidatorSet(2) /\ InitLedger

SpecHistory == InitHistory /\ [][NextHistory]_vars

\* C40 (SpecHistory): after any number of add_update calls on a history
\* that started empty, get_latest returns the record added last, updates
\* holds at most 100 records, current_index is the number of calls mod 100,
\* total_updates is the number of calls (saturating), and get_latest
\* returns None only when nothing was added.
HistoryRingBuffer ==
    request.kind = "history" =>
        /\ request.calls > 0 => request.latest = request.added
        /\ request.latest = get_latest(request.history)
        /\ Len(request.history.updates) <= 100
        /\ Len(request.history.updates) = Min(request.calls, 100)
        /\ request.history.current_index = request.calls % 100
        /\ request.history.total_updates = Min(request.calls, U64_MAX)
        /\ ~request.latest.some <=> request.calls = 0

\* The buffer has wrapped twice and the latest record is neither in the
\* last slot nor in the first.
HistoryRingBuffer_Witness ==
    /\ request.kind = "history"
    /\ request.calls = 2 * HISTORY_SIZE + 3
    /\ Len(request.history.updates) = HISTORY_SIZE
    /\ request.history.current_index = 3
    /\ request.latest.some
    /\ request.latest.value = request.history.updates[3]
    /\ request.latest.value.update_epoch = request.next_epoch - 1
====
